---- MODULE Spec2Model ----
(***************************************************************************)
(* pi-carplay: the main-process dongle session (CarplayService), the USB   *)
(* hot-plug watcher (USBService) and the renderer's usb-event handlers,    *)
(* as a state machine.  Every `await` on real I/O is a point where other   *)
(* handlers may run; code between two such points is one atomic step.      *)
(*                                                                         *)
(* Promises are numbers: 0 is null/undefined, -1 a promise that is already *)
(* settled, k > 0 the promise of the start (stop) body running in slot k.  *)
(* shuttingDown is set only by the before-quit handler (main/index.ts),    *)
(* which ends the run; the runs modelled here are those before it.         *)
(*                                                                         *)
(* The PCM worklet with its ring buffer, the render worker's decoder       *)
(* gating, the touch hook with the touch channels, and the microphone      *)
(* commands each have their own variables, actions and specification; so   *)
(* do the recorder processes of the Microphone, the persisted media        *)
(* payload, the worklet's preroll accounting over whole process() calls,   *)
(* the render worker's frame pacing, the frame heartbeat and the update    *)
(* session.                                                                *)
(***************************************************************************)
EXTENDS Integers, Sequences, FiniteSets, TLC

\* ------------------------------------------------------------------ bounds
MaxBodies == 2      \* slots for start() bodies, and for stop() bodies
MaxPending == 2     \* hot-plug events, notifications and requests in flight
TickMs == 5000      \* granularity of the clock
MaxTicks == 3       \* clock ticks observed while a pair timeout is pending
MaxPrerollQ == 2    \* largest maxPrerollQ a worklet is constructed with
MaxStable == 2      \* full quanta in a row that are counted one by one
MaxChunks == 2      \* chunks accepted by the video decoder that are counted
MaxPointers == 2    \* touch pointers on the screen
MaxProcs == 3       \* recorder processes alive or being reaped at one time
MaxElapsed == 20    \* ms followed since the last draw; beyond, time is "long ago"
MaxCallbacks == 2   \* animation-frame callbacks requested and not yet run
MaxTimers == 3      \* handles setInterval gives out before reusing one
MaxUpdates == 2     \* update handler bodies in flight at one time

\* ------------------------------------------------------- program constants
PairTimeoutMs == 15000
StableBlocksToShrink == 128
RENDER_QUANTUM_FRAMES == 2  \* frames per render quantum, scaled down from 128
SoftUnderrunsToGrow == 4

\* ------------------------------------------------------------ number model
One == 2            \* the number 1.0 in the unit finite numbers are counted in

VARIABLES
  \* --- environment: the physical dongle and libusb's hot-plug events
  devPresent,      \* the dongle is in usb.getDeviceList()
  usbQueue,        \* hot-plug events emitted by libusb, not yet handled
  reenum,          \* re-enumeration after a device reset: none/pending/back
  \* --- USBService
  usbUp,           \* the USBService constructor has run
  lastDongleState,
  lastTransport,   \* last hot-plug event handled: none / attach / detach
  notifLast,       \* last 'plugged'/'unplugged' notification sent to windows
  notifPrev,       \* the one before it
  rendQ,           \* 'usb-event' notifications on their way to the renderer
  rstPc,           \* position of the force-reset request in flight
  rstGone,         \* the Device that request holds has left the bus
  resetDone,       \* last 'usb-reset-done' value: none / ok / failed
  rstOpened,       \* resetDongle holds the Device open
  rstRet,          \* what resetDongle returned last: none/pending/true/false
  rstErr,          \* how its last run ended: none / open / ok / a reset error
  \* --- CarplayService
  webContents,     \* attachRenderer was called
  dongleConnected,
  started, stopping, shuttingDown,
  isStarting, startPromise,
  isStopping, stopPromise,
  webUsbDevice,    \* 0: null, k: the handle opened by start body k
  pairTimeout,     \* null / armed / fired (a fired handle is still non-null)
  frameInterval,
  startPc, stopPc, \* position of each start / stop body
  hnd,             \* per start body: the WebUSBDevice it opened: none / open
  hndGone,         \* start bodies and handles whose device has left the bus
  startRet,        \* what the last start() call returned (-2: no call yet)
  startHow,        \* the branch it took: none/started/inflight/nodevice/begun
  stopRet,         \* what the last stop() call returned (-2: no call yet)
  stopHow,         \* the branch it took: none / inflight / noop / begun
  \* --- DongleDriver and what it sent to the dongle
  drv,             \* closed / initialised / streaming
  wifiPairSent,    \* SendCommand('wifiPair') sent in this session
  closeCalls,      \* driver.close() calls for this session
  \* --- clock, relative to the arming of the pair timeout
  pairElapsed,
  \* --- upward event stream ('carplay-event', 'carplay-*-chunk')
  lastUp, upSeq,
  \* --- session history
  mediaSince,      \* Video/Audio/MediaData handled since the session started
  pluggedSince,    \* Plugged handled since the session started
  stopSince,       \* stop() called since the session started
  \* --- renderer (Carplay component)
  mounted, hasStartedRef, ipcQ,
  \* --- audio ring (SharedArrayBuffer) between the PCM writer and the worklet
  storage,         \* the Int16Array of samples
  writePointer, readPointer,
  wseq,            \* the next sample the writer will write
  rseq,            \* the next sample a reader must deliver
  unread,          \* samples written and not yet read
  \* --- PCMWorkletProcessor
  channels, basePrerollQ, targetPrerollQ, maxPrerollQ,
  primed, stableBlocks, softUnderruns, reportedUnderrun,
  wlPc,            \* process(): idle / readTo (before its call of readTo)
  aligned,         \* process(): the local `aligned`
  readerOutput,    \* the samples readTo copied in this process() call
  outKind,         \* what the last quantum was filled with
  framesGot,       \* process(): data frames in the last quantum
  outSeq,          \* flips at every quantum
  portLast, portPrev,  \* the last two messages posted on the port
  \* --- RendererWorker (Render.worker.ts)
  isConfigured, lastSPS, awaitingValidKeyframe,
  rendererHwSupported, rendererSwSupported, hardwareAccelerationTested,
  decoderMode,     \* hardwareAcceleration of the accepted configure()
  chunkCount,      \* chunks the decoder accepted, up to MaxChunks
  firstChunk, lastChunk,   \* type of the first / the last chunk accepted
  seenSps, seenKey,        \* a packet with an SPS / a keyframe has arrived
  deltaDropped,    \* a delta was ignored while awaiting a keyframe
  pkt,             \* the packet processRaw handled last
  rawLast,         \* what processRaw did with it
  rawSeq,          \* flips at every processRaw call
  \* --- useCarplayMultiTouch (renderer) and the touch channels (main)
  slotByPointerId, active, freeSlots, nextSlot, mouseDown,
  touchIpc,        \* the touch message the last event sent to the main process
  driverSent,      \* the last SendTouch / SendMultiTouch handed to the driver
  sendSeq,         \* flips at every message handed to the driver
  isDown,          \* touch pointers that went Down and not yet Up
  lastPos,         \* position of the latest event of each pointer that is down
  lastEvent,       \* the pointer event handled last
  evSeq,           \* flips at every pointer event
  \* --- audio commands and the microphones (CarplayService, Carplay)
  audioTransferMode,   \* config.audioTransferMode
  recorder,        \* the platform has a recorder Microphone.start can spawn
  configLoaded,    \* the two above have been settled
  svcMic,          \* CarplayService._mic: null / Stopped / Running
  nodeMic,         \* the Carplay class's mic: Stopped / Running
  micCmd,          \* the audio command handled last, and by which handler
  micSeq,          \* flips at every audio command handled
  \* --- Microphone (Microphone.ts) and the recorder processes it spawns
  recProc,         \* each process: none / running / killed (exit pending)
  micProcess,      \* Microphone.process: 0 for null, else the process
  recOp,           \* the call or event handled last
  recSeq,          \* flips at every call or event
  \* --- mediaData.json as readMediaFile returns it (part_006:43-53)
  persistedMedia,  \* payload.media, a key -> value bag
  persistedImage,  \* payload.base64Image, Undefined when absent
  mediaMsg,        \* the MediaData message handled last
  mediaSeq,        \* flips at every MediaData message
  \* --- history of the worklet's output
  fullRun,         \* full quanta delivered in a row since the target last moved
  \* --- RendererWorker's frame pacing (Render.worker.ts:23-78)
  pendingFrame,    \* 0 for null, else the decoded frame waiting to be drawn
  renderScheduled,
  rafCallbacks,    \* requestAnimationFrame callbacks requested, not yet run
  sinceRender,     \* performance.now() - lastRenderTime in ms, up to MaxElapsed
  targetFps,
  lastDrawn,       \* the frame handed to renderer.draw last
  drawSeq,         \* flips at every draw
  \* --- the frame heartbeat (part_005:32, 48-59, 130-150; part_006:73, 89-94)
  hbConfigured,    \* phoneConfig[phoneType].frameInterval is set, for the
                   \* Plugged message handled last
  hbWho,           \* whose handler took it: "service" or "carplay"
  hbSeq,           \* flips at every Plugged message handled
  libFrameInterval, \* Carplay._frameInterval: 0 for null, else a timer
  hbTimers,        \* the interval timers that are running
  frameSeq,        \* flips at every SendCommand('frame') of a timer
  \* --- the update session (index.ts:118-124, 765-848)
  updState,        \* updateSession.state
  updTmpFile,      \* updateSession.tmpFile: 0 for none, else the file
  updCancel,       \* updateSession.cancel: 0 for none, else the download
  updPlatform,     \* updateSession.platform is set
  updPc,           \* each handler body in flight: the await it is at
  download,        \* each download: none / running / cancelled
  updOp,           \* how the handler called last answered
  updSeq           \* flips at every handler call or continuation

envVars == <<devPresent, usbQueue, reenum>>
watchVars == <<usbUp, lastDongleState, lastTransport>>
notifVars == <<notifLast, notifPrev, rendQ>>
rstVars == <<rstPc, rstGone, resetDone>>
rstIo == <<rstOpened, rstRet, rstErr>>
startVars == <<isStarting, startPromise, startPc, startRet, startHow>>
stopVars == <<stopping, isStopping, stopPromise, stopPc, stopRet, stopHow,
              stopSince, closeCalls>>
timerVars == <<pairTimeout, frameInterval, pairElapsed>>
devVars == <<webUsbDevice, hnd, hndGone>>
flagVars == <<webContents, dongleConnected, started, shuttingDown>>
sessVars == <<drv, wifiPairSent, mediaSince, pluggedSince>>
upVars == <<lastUp, upSeq>>
rendVars == <<mounted, hasStartedRef, ipcQ>>
coreVars == <<envVars, watchVars, notifVars, rstVars, rstIo, startVars,
              stopVars, timerVars, devVars, flagVars, sessVars, upVars,
              rendVars>>
ringVars == <<storage, writePointer, readPointer, wseq, rseq, unread>>
cfgVars == <<channels, basePrerollQ, maxPrerollQ>>
wlVars == <<targetPrerollQ, primed, stableBlocks, softUnderruns,
            reportedUnderrun, wlPc, aligned>>
outVars == <<readerOutput, outKind, framesGot, outSeq>>
portVars == <<portLast, portPrev>>
audioVars == <<ringVars, cfgVars, wlVars, outVars, portVars>>
decVars == <<isConfigured, lastSPS, awaitingValidKeyframe,
             rendererHwSupported, rendererSwSupported,
             hardwareAccelerationTested, decoderMode, chunkCount, firstChunk,
             lastChunk, seenSps, seenKey, deltaDropped, pkt, rawLast, rawSeq>>
touchVars == <<slotByPointerId, active, freeSlots, nextSlot, mouseDown,
               touchIpc, driverSent, sendSeq, isDown, lastPos, lastEvent,
               evSeq>>
micVars == <<audioTransferMode, recorder, configLoaded, svcMic, nodeMic,
             micCmd, micSeq>>
recVars == <<recProc, micProcess, recOp, recSeq>>
mediaVars == <<persistedMedia, persistedImage, mediaMsg, mediaSeq>>
streakVars == <<fullRun>>
drawVars == <<pendingFrame, renderScheduled, rafCallbacks, sinceRender,
              targetFps, lastDrawn, drawSeq>>
hbVars == <<hbConfigured, hbWho, hbSeq, libFrameInterval, hbTimers, frameSeq>>
updVars == <<updState, updTmpFile, updCancel, updPlatform, updPc, download,
             updOp, updSeq>>
auxVars == <<audioVars, decVars, touchVars, micVars, recVars, mediaVars,
             streakVars, drawVars, hbVars, updVars>>
vars == <<coreVars, auxVars>>

Slots == 1..MaxBodies

StartInFlight(k) == startPc[k] \notin {"idle", "failed"}
StopInFlight(k) == stopPc[k] # "idle"

Flip(b) == 1 - b

\* ------------------------------------------------------------ audio ring
\* The ring holds one sample less than its storage; it is sized to hold the
\* largest preroll.
StorageLen == MaxPrerollQ * RENDER_QUANTUM_FRAMES * 2 + 1
\* Samples are numbered in the order they are written, modulo SampleMod:
\* the samples held by the ring at one time all differ.
SampleMod == StorageLen

Min(a, b) == IF a < b THEN a ELSE b

\* new RingBuffReader(sab) on a fresh buffer, and the PCMWorkletProcessor
\* constructor: channels, basePrerollQ, targetPrerollQ = basePrerollQ,
\* maxPrerollQ >= basePrerollQ.
\* A video packet as processRaw sees it: its length, whether it holds an SPS
\* and a keyframe, and how getDecoderConfig, configure() in either mode and
\* decode() answer for it.
RawInputs ==
  [bytes : {0, 1}, sps : BOOLEAN, key : BOOLEAN, cfg : BOOLEAN,
   hw : BOOLEAN, sw : BOOLEAN, dec : BOOLEAN]

InitDecoder ==
  /\ isConfigured = FALSE
  /\ lastSPS = FALSE
  /\ awaitingValidKeyframe = TRUE
  /\ rendererHwSupported = FALSE
  /\ rendererSwSupported = FALSE
  /\ hardwareAccelerationTested = FALSE
  /\ decoderMode = "none"
  /\ chunkCount = 0
  /\ firstChunk = "none"
  /\ lastChunk = "none"
  /\ seenSps = FALSE
  /\ seenKey = FALSE
  /\ deltaDropped = FALSE
  /\ pkt = [bytes |-> 0, sps |-> FALSE, key |-> FALSE, cfg |-> FALSE,
            hw |-> FALSE, sw |-> FALSE, dec |-> FALSE]
  /\ rawLast = "none"
  /\ rawSeq = 0

\* JavaScript numbers: NaN, the infinities, and finite numbers counted in
\* units of 1/One.
NaN == [k |-> "nan", v |-> 0]
PosInf == [k |-> "inf", v |-> 0]
NegInf == [k |-> "ninf", v |-> 0]
Fin(i) == [k |-> "fin", v |-> i]
JsNumbers ==
  {NaN, PosInf, NegInf} \cup {Fin(i) : i \in {-1, 0, 1, One, One + 1}}

Pointers == 1..MaxPointers
\* e.pointerType; the mouse is pointer 0.
pointerType(pid) == IF pid = 0 THEN "mouse" ELSE "touch"
NoMessage == [ch |-> "none", x |-> Fin(0), y |-> Fin(0), action |-> "none",
              points |-> {}]

InitTouch ==
  /\ slotByPointerId = <<>>
  /\ active = <<>>
  /\ freeSlots = <<>>
  /\ nextSlot = 0
  /\ mouseDown = FALSE
  /\ touchIpc = NoMessage
  /\ driverSent = NoMessage
  /\ sendSeq = 0
  /\ isDown = {}
  /\ lastPos = <<>>
  /\ lastEvent = [type |-> "none", pid |-> 0,
                  pos |-> [x |-> Fin(0), y |-> Fin(0)], alloc |-> "none"]
  /\ evSeq = 0

InitMic ==
  /\ audioTransferMode = FALSE
  /\ recorder = FALSE
  /\ configLoaded = FALSE
  /\ svcMic = "null"
  /\ nodeMic = "Stopped"
  /\ micCmd = [to |-> "none", command |-> "none"]
  /\ micSeq = 0

InitAudio ==
  /\ storage = [i \in 1..StorageLen |-> 0]
  /\ writePointer = 0
  /\ readPointer = 0
  /\ wseq = 1
  /\ rseq = 1
  /\ unread = 0
  /\ channels = 1
  /\ basePrerollQ = 1
  /\ maxPrerollQ = 1
  /\ targetPrerollQ = 1
  /\ primed = FALSE
  /\ stableBlocks = 0
  /\ softUnderruns = 0
  /\ reportedUnderrun = FALSE
  /\ wlPc = "new"
  /\ aligned = 0
  /\ readerOutput = <<>>
  /\ outKind = "none"
  /\ framesGot = 0
  /\ outSeq = 0
  /\ portLast = "none"
  /\ portPrev = "none"

Init ==
  /\ devPresent \in BOOLEAN
  /\ usbQueue = <<>>
  /\ reenum = "none"
  /\ usbUp = FALSE
  /\ lastDongleState = FALSE
  /\ lastTransport = "none"
  /\ notifLast = "none"
  /\ notifPrev = "none"
  /\ rendQ = <<>>
  /\ rstPc = "idle"
  /\ rstGone = FALSE
  /\ resetDone = "none"
  /\ rstOpened = FALSE
  /\ rstRet = "none"
  /\ rstErr = "none"
  /\ webContents = FALSE
  /\ dongleConnected = FALSE
  /\ started = FALSE
  /\ stopping = FALSE
  /\ shuttingDown = FALSE
  /\ isStarting = FALSE
  /\ startPromise = 0
  /\ isStopping = FALSE
  /\ stopPromise = 0
  /\ webUsbDevice = 0
  /\ pairTimeout = "null"
  /\ frameInterval = FALSE
  /\ startPc = [k \in Slots |-> "idle"]
  /\ stopPc = [k \in Slots |-> "idle"]
  /\ hnd = [k \in Slots |-> "none"]
  /\ hndGone = {}
  /\ startRet = -2
  /\ startHow = "none"
  /\ stopRet = -2
  /\ stopHow = "none"
  /\ drv = "closed"
  /\ wifiPairSent = 0
  /\ closeCalls = 0
  /\ pairElapsed = 0
  /\ lastUp = "none"
  /\ upSeq = 0
  /\ mediaSince = FALSE
  /\ pluggedSince = FALSE
  /\ stopSince = FALSE
  /\ mounted = FALSE
  /\ hasStartedRef = FALSE
  /\ ipcQ = <<>>
  /\ InitAudio
  /\ InitDecoder
  /\ InitTouch
  /\ InitMic
  /\ recProc = [k \in 1..MaxProcs |-> "none"]
  /\ micProcess = 0
  /\ recOp = "none"
  /\ recSeq = 0
  /\ persistedMedia = <<>>
  /\ persistedImage = "undefined"
  /\ mediaMsg = [type |-> "none"]
  /\ mediaSeq = 0
  /\ fullRun = 0
  /\ pendingFrame = 0
  /\ renderScheduled = FALSE
  /\ rafCallbacks = 0
  /\ sinceRender = 0
  /\ targetFps = 60
  /\ lastDrawn = 0
  /\ drawSeq = 0
  /\ hbConfigured = FALSE
  /\ hbWho = "none"
  /\ hbSeq = 0
  /\ libFrameInterval = 0
  /\ hbTimers = {}
  /\ frameSeq = 0
  /\ updState = "idle"
  /\ updTmpFile = 0
  /\ updCancel = 0
  /\ updPlatform = FALSE
  /\ updPc = [k \in 1..MaxUpdates |-> "idle"]
  /\ download = [k \in 1..MaxUpdates |-> "none"]
  /\ updOp = "none"
  /\ updSeq = 0

\* =========================================================================
\* CarplayService
\* =========================================================================

\* clearTimeouts(): both handles are cleared and nulled.
clearTimeouts ==
  /\ pairTimeout' = "null"
  /\ frameInterval' = FALSE
  /\ pairElapsed' = 0

\* The slot a new start body runs in: the first one that holds neither a body
\* in flight nor an open handle.
FreeStartSlots == {k \in Slots : ~StartInFlight(k) /\ hnd[k] = "none"}
FreeStopSlots == {k \in Slots : ~StopInFlight(k)}
First(S) == CHOOSE k \in S : \A j \in S : k <= j

\* start() without the isStarting guard: a request made while a start is in
\* flight runs the body again.
start_NoInFlightGuard ==
  IF started THEN
    /\ startRet' = 0
    /\ startHow' = "started"
    /\ UNCHANGED <<isStarting, startPromise, startPc>>
  ELSE IF ~devPresent THEN
    /\ isStarting' = FALSE
    /\ startPromise' = -1
    /\ startRet' = -1
    /\ startHow' = "nodevice"
    /\ UNCHANGED startPc
  ELSE
    /\ FreeStartSlots # {}
    /\ isStarting' = TRUE
    /\ startPromise' = First(FreeStartSlots)
    /\ startRet' = First(FreeStartSlots)
    /\ startHow' = "begun"
    /\ startPc' = [startPc EXCEPT ![First(FreeStartSlots)] = "createInstance"]

\* start(): the two guards, then the synchronous head of the async body up to
\* its first await (config read, getDeviceList().find, createInstance call).
\* With no dongle listed the body returns before any await: its finally block
\* runs first and the assignment of the (settled) startPromise comes after it.
start ==
  IF started THEN
    /\ startRet' = 0
    /\ startHow' = "started"
    /\ UNCHANGED <<isStarting, startPromise, startPc>>
  ELSE IF isStarting THEN
    /\ startRet' = startPromise
    /\ startHow' = "inflight"
    /\ UNCHANGED <<isStarting, startPromise, startPc>>
  ELSE IF ~devPresent THEN
    /\ isStarting' = FALSE
    /\ startPromise' = -1
    /\ startRet' = -1
    /\ startHow' = "nodevice"
    /\ UNCHANGED startPc
  ELSE
    /\ FreeStartSlots # {}
    /\ isStarting' = TRUE
    /\ startPromise' = First(FreeStartSlots)
    /\ startRet' = First(FreeStartSlots)
    /\ startHow' = "begun"
    /\ startPc' = [startPc EXCEPT ![First(FreeStartSlots)] = "createInstance"]

\* stop() without its guards: every call runs the body.
stop_NoGuards ==
  /\ FreeStopSlots # {}
  /\ stopping' = TRUE
  /\ isStopping' = TRUE
  /\ stopPromise' = First(FreeStopSlots)
  /\ stopRet' = First(FreeStopSlots)
  /\ stopHow' = "begun"
  /\ stopPc' = [stopPc EXCEPT ![First(FreeStopSlots)] = "driverClose"]
  /\ clearTimeouts
  /\ closeCalls' = IF closeCalls < 2 THEN closeCalls + 1 ELSE closeCalls
  /\ stopSince' = TRUE

\* stop(): the guards, then the synchronous head of the body: clearTimeouts()
\* and the call of driver.close().
stop ==
  IF isStopping THEN
    /\ stopRet' = stopPromise
    /\ stopHow' = "inflight"
    /\ stopSince' = (stopSince \/ started)
    /\ UNCHANGED <<stopping, isStopping, stopPromise, stopPc, closeCalls,
                   timerVars>>
  ELSE IF ~started \/ stopping THEN
    /\ stopRet' = 0
    /\ stopHow' = "noop"
    /\ stopSince' = (stopSince \/ started)
    /\ UNCHANGED <<stopping, isStopping, stopPromise, stopPc, closeCalls,
                   timerVars>>
  ELSE
    /\ FreeStopSlots # {}
    /\ stopping' = TRUE
    /\ isStopping' = TRUE
    /\ stopPromise' = First(FreeStopSlots)
    /\ stopRet' = First(FreeStopSlots)
    /\ stopHow' = "begun"
    /\ stopPc' = [stopPc EXCEPT ![First(FreeStopSlots)] = "driverClose"]
    /\ clearTimeouts
    /\ closeCalls' = IF closeCalls < 2 THEN closeCalls + 1 ELSE closeCalls
    /\ stopSince' = TRUE

\* autoStartIfNeeded(), called right after markDongleConnected(true)
autoStartIfNeeded ==
  IF ~shuttingDown /\ ~started /\ ~isStarting /\ dongleConnected'
  THEN start
  ELSE UNCHANGED startVars

\* attachRenderer(webContents)
attachRenderer ==
  /\ ~webContents
  /\ webContents' = TRUE
  /\ UNCHANGED <<auxVars, rstIo, envVars, watchVars, notifVars, rstVars, startVars, stopVars,
                 timerVars, devVars, dongleConnected, started, shuttingDown,
                 sessVars, upVars, rendVars>>

\* ipcMain.handle('carplay-start'), requested by the host at any time
IpcStart ==
  /\ start
  /\ UNCHANGED <<auxVars, rstIo, envVars, watchVars, notifVars, rstVars, stopVars, timerVars,
                 devVars, flagVars, sessVars, upVars, rendVars>>

\* ipcMain.handle('carplay-stop'), requested by the host at any time
IpcStop ==
  /\ stop
  /\ UNCHANGED <<auxVars, rstIo, envVars, watchVars, notifVars, rstVars, startVars, devVars,
                 flagVars, sessVars, upVars, rendVars>>

\* An I/O step of start body k can succeed only while the device it was
\* found on is still on the bus.
Outcomes(k) == IF k \in hndGone THEN {FALSE} ELSE BOOLEAN

\* The catch block of start(): `await this.webUsbDevice?.close()` is real I/O
\* only when the field is set; then webUsbDevice = null, started = false and
\* the finally block.
StartCatch(k) ==
  IF webUsbDevice = 0
  THEN /\ startPc' = [startPc EXCEPT ![k] = "failed"]
       /\ isStarting' = FALSE
       /\ startPromise' = 0
       /\ started' = FALSE
       /\ hndGone' = hndGone \ {k}
  ELSE /\ startPc' = [startPc EXCEPT ![k] = "catchClose"]
       /\ UNCHANGED <<isStarting, startPromise, started, hndGone>>

\* await WebUSBDevice.createInstance(device)
StartCreateInstance(k) ==
  /\ startPc[k] = "createInstance"
  /\ \E ok \in Outcomes(k) :
       IF ok
       THEN /\ startPc' = [startPc EXCEPT ![k] = "open"]
            /\ UNCHANGED <<isStarting, startPromise, started, hndGone>>
       ELSE StartCatch(k)
  /\ UNCHANGED <<auxVars, rstIo, envVars, watchVars, notifVars, rstVars, startRet, startHow,
                 stopVars,
                 timerVars, webUsbDevice, hnd, webContents, dongleConnected,
                 shuttingDown, sessVars, upVars, rendVars>>

\* await webUsbDevice.open(); this.webUsbDevice = webUsbDevice
StartOpen(k) ==
  /\ startPc[k] = "open"
  /\ \E ok \in Outcomes(k) :
       IF ok
       THEN /\ startPc' = [startPc EXCEPT ![k] = "initialise"]
            /\ hnd' = [hnd EXCEPT ![k] = "open"]
            /\ webUsbDevice' = k
            /\ UNCHANGED <<isStarting, startPromise, started, hndGone>>
       ELSE /\ StartCatch(k)
            /\ UNCHANGED <<hnd, webUsbDevice>>
  /\ UNCHANGED <<auxVars, rstIo, envVars, watchVars, notifVars, rstVars, startRet, startHow,
                 stopVars,
                 timerVars, webContents, dongleConnected, shuttingDown,
                 sessVars, upVars, rendVars>>

\* await this.driver.initialise(asDomUSBDevice(webUsbDevice))
StartInitialise(k) ==
  /\ startPc[k] = "initialise"
  /\ \E ok \in Outcomes(k) :
       IF ok
       THEN /\ startPc' = [startPc EXCEPT ![k] = "driverStart"]
            /\ drv' = "initialised"
            /\ UNCHANGED <<isStarting, startPromise, started, hndGone>>
       ELSE /\ StartCatch(k)
            /\ UNCHANGED drv
  /\ UNCHANGED <<auxVars, rstIo, envVars, watchVars, notifVars, rstVars, startRet, startHow,
                 stopVars,
                 timerVars, webUsbDevice, hnd, webContents, dongleConnected,
                 shuttingDown, wifiPairSent, mediaSince, pluggedSince, upVars,
                 rendVars>>

\* await this.driver.start(this.config); arm the pair timeout; started = true;
\* the finally block.
StartDriverStart(k) ==
  /\ startPc[k] = "driverStart"
  /\ \E ok \in Outcomes(k) :
       IF ok
       THEN /\ startPc' = [startPc EXCEPT ![k] = "idle"]
            /\ drv' = "streaming"
            /\ pairTimeout' = "armed"
            /\ pairElapsed' = 0
            /\ started' = TRUE
            /\ isStarting' = FALSE
            /\ startPromise' = 0
            /\ wifiPairSent' = 0
            /\ closeCalls' = 0
            /\ mediaSince' = FALSE
            /\ pluggedSince' = FALSE
            /\ stopSince' = FALSE
            /\ UNCHANGED <<frameInterval, hndGone>>
       ELSE /\ StartCatch(k)
            /\ UNCHANGED <<drv, timerVars, wifiPairSent, closeCalls,
                           mediaSince, pluggedSince, stopSince>>
  /\ UNCHANGED <<auxVars, rstIo, envVars, watchVars, notifVars, rstVars, startRet, startHow,
                 stopping, isStopping, stopPromise, stopPc, stopRet, stopHow,
                 webUsbDevice, hnd,
                 webContents, dongleConnected, shuttingDown, upVars, rendVars>>

\* catch: the close of this.webUsbDevice has settled.
StartCatchClose(k) ==
  /\ startPc[k] = "catchClose"
  /\ startPc' = [startPc EXCEPT ![k] = "failed"]
  /\ hnd' = [h \in Slots |-> IF h = webUsbDevice THEN "none" ELSE hnd[h]]
  /\ hndGone' = hndGone \ {k, webUsbDevice}
  /\ webUsbDevice' = 0
  /\ started' = FALSE
  /\ isStarting' = FALSE
  /\ startPromise' = 0
  /\ UNCHANGED <<auxVars, rstIo, envVars, watchVars, notifVars, rstVars, startRet, startHow,
                 stopVars,
                 timerVars, webContents, dongleConnected, shuttingDown,
                 sessVars, upVars, rendVars>>

\* stop body: driver.close() has settled; this._mic?.stop(); then
\* `await this.webUsbDevice?.close()`.
StopDriverClose(k) ==
  /\ stopPc[k] = "driverClose"
  /\ stopPc' = [stopPc EXCEPT ![k] = "deviceClose"]
  /\ drv' = "closed"
  /\ UNCHANGED <<auxVars, rstIo, envVars, watchVars, notifVars, rstVars, startVars, stopping,
                 isStopping, stopPromise, stopRet, stopHow, stopSince, closeCalls,
                 timerVars, devVars, flagVars, wifiPairSent, mediaSince,
                 pluggedSince, upVars, rendVars>>

\* stop body: the device close has settled; webUsbDevice = null; started =
\* false; then the .finally callback and the continuation of whoever awaits
\* the promise (gracefulForceReset), in the same microtask checkpoint.
StopDeviceClose(k) ==
  /\ stopPc[k] = "deviceClose"
  /\ stopPc' = [stopPc EXCEPT ![k] = "idle"]
  /\ hnd' = [h \in Slots |-> IF h = webUsbDevice THEN "none" ELSE hnd[h]]
  /\ hndGone' = hndGone \ {webUsbDevice}
  /\ webUsbDevice' = 0
  /\ started' = FALSE
  /\ stopping' = FALSE
  /\ isStopping' = FALSE
  /\ stopPromise' = 0
  /\ closeCalls' = 0
  /\ wifiPairSent' = 0
  /\ mediaSince' = FALSE
  /\ pluggedSince' = FALSE
  /\ stopSince' = FALSE
  /\ rstPc' = IF rstPc = "awaitStop" THEN "delay" ELSE rstPc
  /\ UNCHANGED <<auxVars, rstIo, envVars, watchVars, notifVars, rstGone, resetDone, startVars,
                 stopRet, stopHow, timerVars, webContents, dongleConnected,
                 shuttingDown, drv, upVars, rendVars>>

\* The pair timeout armed with no delay.
PairTimeoutFire_Early ==
  /\ pairTimeout = "armed"
  /\ pairTimeout' = "fired"
  /\ wifiPairSent' = IF wifiPairSent < 2 THEN wifiPairSent + 1 ELSE wifiPairSent
  /\ UNCHANGED <<auxVars, rstIo, envVars, watchVars, notifVars, rstVars, startVars, stopVars,
                 frameInterval, pairElapsed, devVars, flagVars, drv,
                 mediaSince, pluggedSince, upVars, rendVars>>

\* setTimeout callback armed in start(): driver.send(new SendCommand('wifiPair'))
PairTimeoutFire ==
  /\ pairTimeout = "armed"
  /\ pairElapsed >= PairTimeoutMs
  /\ pairTimeout' = "fired"
  /\ wifiPairSent' = IF wifiPairSent < 2 THEN wifiPairSent + 1 ELSE wifiPairSent
  /\ UNCHANGED <<auxVars, rstIo, envVars, watchVars, notifVars, rstVars, startVars, stopVars,
                 frameInterval, pairElapsed, devVars, flagVars, drv,
                 mediaSince, pluggedSince, upVars, rendVars>>

\* Time passes while a pair timeout is pending (a timer may fire late).
Tick ==
  /\ pairTimeout = "armed"
  /\ pairElapsed < MaxTicks * TickMs
  /\ pairElapsed' = pairElapsed + TickMs
  /\ UNCHANGED <<auxVars, rstIo, envVars, watchVars, notifVars, rstVars, startVars, stopVars,
                 pairTimeout, frameInterval, devVars, flagVars, sessVars,
                 upVars, rendVars>>

\* A driver whose read loop delivers as soon as it is initialised.
DriverReading_BeforeStart ==
  /\ drv # "closed"
  /\ webUsbDevice # 0
  /\ webUsbDevice \notin hndGone

\* ------------------------------------------------------------ DongleDriver
\* The driver's read loop delivers messages only between a successful
\* driver.start() and driver.close(), and only while its device is open and
\* on the bus.
DriverReading ==
  /\ drv = "streaming"
  /\ webUsbDevice # 0
  /\ webUsbDevice \notin hndGone

Messages == {"Plugged", "Unplugged", "VideoData", "AudioData", "MediaData",
             "Command"}
MediaMessages == {"VideoData", "AudioData", "MediaData"}

\* webContents.send('carplay-event' | 'carplay-video-chunk' | ...)
Up(e) ==
  /\ lastUp' = e
  /\ upSeq' = Flip(upSeq)

UpwardOf(m) ==
  CASE m = "Plugged" -> "plugged"
    [] m = "Unplugged" -> "unplugged"
    [] m = "VideoData" -> "video"
    [] m = "AudioData" -> "audio"
    [] m = "MediaData" -> "media"
    [] m = "Command" -> "command"

\* this.driver.on('message', ...) with the forwarding only: nothing else is
\* done for an in-band Plugged or Unplugged.
OnMessage_Informational(m) ==
  /\ DriverReading
  /\ IF ~webContents
     THEN UNCHANGED <<upVars, mediaSince, pluggedSince>>
     ELSE /\ Up(UpwardOf(m))
          /\ pluggedSince' = (pluggedSince \/ m = "Plugged")
          /\ mediaSince' = (mediaSince \/ m \in MediaMessages)
  /\ UNCHANGED <<auxVars, rstIo, envVars, watchVars, notifVars, rstVars, startVars, stopVars,
                 timerVars, devVars, flagVars, drv, wifiPairSent, rendVars>>

\* this.driver.on('message', ...)
OnMessage(m) ==
  /\ DriverReading
  /\ IF ~webContents
     THEN UNCHANGED <<upVars, startVars, stopVars, timerVars, mediaSince,
                      pluggedSince>>
     ELSE /\ Up(UpwardOf(m))
          /\ pluggedSince' = (pluggedSince \/ m = "Plugged")
          /\ mediaSince' = (mediaSince \/ m \in MediaMessages)
          /\ CASE m = "Plugged" ->
                    /\ clearTimeouts
                    /\ IF ~started /\ ~isStarting
                       THEN start
                       ELSE UNCHANGED startVars
                    /\ UNCHANGED stopVars
               [] m = "Unplugged" ->
                    /\ IF ~shuttingDown /\ ~stopping
                       THEN stop
                       ELSE UNCHANGED <<stopVars, timerVars>>
                    /\ UNCHANGED startVars
               [] OTHER ->
                    UNCHANGED <<startVars, stopVars, timerVars>>
  /\ UNCHANGED <<auxVars, rstIo, envVars, watchVars, notifVars, rstVars, devVars, flagVars,
                 drv, wifiPairSent, rendVars>>

\* this.driver.on('failure', ...); the driver may report a failure whenever
\* it is not closed.
OnFailure ==
  /\ drv # "closed"
  /\ webContents
  /\ Up("failure")
  /\ UNCHANGED <<auxVars, rstIo, envVars, watchVars, notifVars, rstVars, startVars, stopVars,
                 timerVars, devVars, flagVars, sessVars, rendVars>>

\* =========================================================================
\* Environment: the physical dongle and libusb's hot-plug events
\* =========================================================================

Emit(ev) == IF usbUp THEN Append(usbQueue, ev) ELSE usbQueue

Pending == Len(usbQueue) + Len(rendQ) + Len(ipcQ)

\* The device objects of the start bodies in flight and the open handles
\* refer to a device that has left the bus.
Orphaned == {k \in Slots : StartInFlight(k) \/ hnd[k] = "open"}

\* The user plugs the dongle in.
EnvPlug ==
  /\ ~devPresent
  /\ reenum = "none"
  /\ Pending < MaxPending
  /\ devPresent' = TRUE
  /\ usbQueue' = Emit("attach")
  /\ UNCHANGED <<auxVars, rstIo, reenum, watchVars, notifVars, rstVars, startVars, stopVars,
                 timerVars, devVars, flagVars, sessVars, upVars, rendVars>>

\* The user pulls the dongle out.
EnvUnplug ==
  /\ devPresent
  /\ reenum = "none"
  /\ Pending < MaxPending
  /\ devPresent' = FALSE
  /\ usbQueue' = Emit("detach")
  /\ hndGone' = hndGone \cup Orphaned
  /\ rstGone' = (rstGone \/ rstPc \in {"awaitStop", "delay"})
  /\ UNCHANGED <<auxVars, rstIo, reenum, watchVars, notifVars, rstPc, resetDone, startVars,
                 stopVars, timerVars, webUsbDevice, hnd, flagVars, sessVars,
                 upVars, rendVars>>

\* A device reset makes the dongle leave the bus ...
ReenumDrop ==
  /\ reenum = "pending"
  /\ reenum' = "back"
  /\ devPresent' = FALSE
  /\ usbQueue' = Emit("detach")
  /\ hndGone' = hndGone \cup Orphaned
  /\ UNCHANGED <<auxVars, rstIo, watchVars, notifVars, rstVars, startVars, stopVars,
                 timerVars, webUsbDevice, hnd, flagVars, sessVars, upVars,
                 rendVars>>

\* ... and come back.
ReenumBack ==
  /\ reenum = "back"
  /\ reenum' = "none"
  /\ devPresent' = TRUE
  /\ usbQueue' = Emit("attach")
  /\ UNCHANGED <<auxVars, rstIo, watchVars, notifVars, rstVars, startVars, stopVars,
                 timerVars, devVars, flagVars, sessVars, upVars, rendVars>>

\* =========================================================================
\* USBService
\* =========================================================================

\* notifyDeviceChange(device, connected): 'usb-event' and 'carplay-event' to
\* every window; the mounted Carplay component listens to 'usb-event'.
notifyDeviceChange(connected) ==
  /\ notifPrev' = notifLast
  /\ notifLast' = IF connected THEN "plugged" ELSE "unplugged"
  /\ rendQ' = IF mounted
              THEN Append(rendQ, IF connected THEN "plugged" ELSE "unplugged")
              ELSE rendQ

\* constructor: listeners registered, then the startup probe of the bus.
USBService ==
  /\ ~usbUp
  /\ usbUp' = TRUE
  /\ IF devPresent
     THEN /\ lastDongleState' = TRUE
          /\ dongleConnected' = TRUE
          /\ autoStartIfNeeded
          /\ notifyDeviceChange(TRUE)
     ELSE UNCHANGED <<lastDongleState, dongleConnected, startVars, notifVars>>
  /\ UNCHANGED <<auxVars, rstIo, envVars, lastTransport, rstVars, stopVars, timerVars, devVars,
                 webContents, started, shuttingDown, sessVars, upVars,
                 rendVars>>

\* usb.on('attach', ...) for the dongle
OnAttach ==
  /\ usbUp
  /\ usbQueue # <<>>
  /\ Head(usbQueue) = "attach"
  /\ usbQueue' = Tail(usbQueue)
  /\ lastTransport' = "attach"
  /\ IF ~lastDongleState
     THEN /\ lastDongleState' = TRUE
          /\ dongleConnected' = TRUE
          /\ autoStartIfNeeded
          /\ notifyDeviceChange(TRUE)
     ELSE UNCHANGED <<lastDongleState, dongleConnected, startVars, notifVars>>
  /\ UNCHANGED <<auxVars, rstIo, devPresent, reenum, usbUp, rstVars, stopVars, timerVars,
                 devVars, webContents, started, shuttingDown, sessVars, upVars,
                 rendVars>>

\* The detach handler without the lastDongleState filter.
OnDetach_NoFilter ==
  /\ usbUp
  /\ usbQueue # <<>>
  /\ Head(usbQueue) = "detach"
  /\ usbQueue' = Tail(usbQueue)
  /\ lastTransport' = "detach"
  /\ lastDongleState' = FALSE
  /\ dongleConnected' = FALSE
  /\ notifyDeviceChange(FALSE)
  /\ UNCHANGED <<auxVars, rstIo, devPresent, reenum, usbUp, rstVars, startVars, stopVars,
                 timerVars, devVars, webContents, started, shuttingDown,
                 sessVars, upVars, rendVars>>

\* usb.on('detach', ...) for the dongle
OnDetach ==
  /\ usbUp
  /\ usbQueue # <<>>
  /\ Head(usbQueue) = "detach"
  /\ usbQueue' = Tail(usbQueue)
  /\ lastTransport' = "detach"
  /\ IF lastDongleState
     THEN /\ lastDongleState' = FALSE
          /\ dongleConnected' = FALSE
          /\ notifyDeviceChange(FALSE)
     ELSE UNCHANGED <<lastDongleState, dongleConnected, notifVars>>
  /\ UNCHANGED <<auxVars, rstIo, devPresent, reenum, usbUp, rstVars, startVars, stopVars,
                 timerVars, devVars, webContents, started, shuttingDown,
                 sessVars, upVars, rendVars>>

\* resetDongle(dongle) up to the call of dongle.reset(): dongle.open() throws
\* or the reset is issued; an issued reset makes the device re-enumerate.
resetDongle ==
  \E opened \in (IF devPresent /\ ~rstGone THEN BOOLEAN ELSE {FALSE}) :
    /\ rstGone' = FALSE
    /\ IF opened
       THEN /\ rstPc' = "resetting"
            /\ reenum' = IF reenum = "none" THEN "pending" ELSE reenum
            /\ rstOpened' = TRUE
            /\ rstRet' = "pending"
            /\ rstErr' = "none"
            /\ UNCHANGED resetDone
       ELSE /\ rstPc' = "idle"
            /\ resetDone' = "failed"
            /\ rstOpened' = FALSE
            /\ rstRet' = "false"
            /\ rstErr' = "open"
            /\ UNCHANGED reenum

\* forceReset() that resets the dongle without the flag and the notification.
forceReset_Silent ==
  /\ usbUp
  /\ rstPc = "idle"
  /\ Pending < MaxPending
  /\ IF devPresent
     THEN /\ resetDongle
          /\ UNCHANGED <<lastDongleState, notifVars>>
     ELSE /\ resetDone' = "failed"
          /\ UNCHANGED <<lastDongleState, notifVars, rstPc, rstGone, reenum,
                      rstIo>>
  /\ UNCHANGED <<auxVars, devPresent, usbQueue, usbUp, lastTransport, startVars,
                 stopVars, timerVars, devVars, flagVars, sessVars, upVars,
                 rendVars>>

\* forceReset()
forceReset ==
  /\ usbUp
  /\ rstPc = "idle"
  /\ Pending < MaxPending
  /\ IF devPresent
     THEN /\ lastDongleState' = FALSE
          /\ notifyDeviceChange(FALSE)
          /\ resetDongle
     ELSE /\ resetDone' = "failed"
          /\ UNCHANGED <<lastDongleState, notifVars, rstPc, rstGone, reenum,
                      rstIo>>
  /\ UNCHANGED <<auxVars, devPresent, usbQueue, usbUp, lastTransport, startVars,
                 stopVars, timerVars, devVars, flagVars, sessVars, upVars,
                 rendVars>>

\* gracefulForceReset() up to `await this.carplay.stop()`; a stop() that
\* returns undefined lets it go on to the 300 ms delay at once.
gracefulForceReset ==
  /\ usbUp
  /\ rstPc = "idle"
  /\ Pending < MaxPending
  /\ IF devPresent
     THEN /\ stop
          /\ rstPc' = IF stopRet' = 0 THEN "delay" ELSE "awaitStop"
          /\ UNCHANGED resetDone
     ELSE /\ resetDone' = "failed"
          /\ UNCHANGED <<stopVars, timerVars, rstPc>>
  /\ UNCHANGED <<auxVars, rstIo, envVars, watchVars, notifVars, rstGone, startVars, devVars,
                 flagVars, sessVars, upVars, rendVars>>

\* gracefulForceReset() after the delay: flag, notifications, resetDongle.
GracefulReset ==
  /\ rstPc = "delay"
  /\ lastDongleState' = FALSE
  /\ notifyDeviceChange(FALSE)
  /\ resetDongle
  /\ UNCHANGED <<auxVars, devPresent, usbQueue, usbUp, lastTransport, startVars,
                 stopVars, timerVars, devVars, flagVars, sessVars, upVars,
                 rendVars>>

\* The reset errors that mean the device left the bus during the call.
NoDeviceErrors == {"LIBUSB_ERROR_NOT_FOUND", "LIBUSB_ERROR_NO_DEVICE",
                   "LIBUSB_TRANSFER_NO_DEVICE"}

ResetOutcomes == {"ok", "other"} \cup NoDeviceErrors

\* The reset callback treating every error as a failure.
ResetCallback_Strict ==
  /\ rstPc = "resetting"
  /\ \E err \in ResetOutcomes :
       /\ resetDone' = IF err # "ok" THEN "failed" ELSE "ok"
       /\ rstRet' = IF err # "ok" THEN "false" ELSE "true"
       /\ rstErr' = err
       /\ reenum' = IF err = "other" /\ reenum = "pending" THEN "none"
                    ELSE reenum
  /\ rstPc' = "idle"
  /\ rstOpened' = FALSE
  /\ UNCHANGED <<auxVars, devPresent, usbQueue, watchVars, notifVars, rstGone,
                 startVars, stopVars, timerVars, devVars, flagVars, sessVars,
                 upVars, rendVars>>

\* The callback of dongle.reset(): 'usb-reset-done' and the result; the
\* finally block closes the device. A reset that failed for another reason
\* than the device leaving does not re-enumerate it.
ResetCallback ==
  /\ rstPc = "resetting"
  /\ \E err \in ResetOutcomes :
       /\ resetDone' = IF err = "other" THEN "failed" ELSE "ok"
       /\ rstRet' = IF err = "other" THEN "false" ELSE "true"
       /\ rstErr' = err
       /\ reenum' = IF err = "other" /\ reenum = "pending" THEN "none"
                    ELSE reenum
  /\ rstPc' = "idle"
  /\ rstOpened' = FALSE
  /\ UNCHANGED <<auxVars, devPresent, usbQueue, watchVars, notifVars, rstGone,
                 startVars, stopVars, timerVars, devVars, flagVars, sessVars,
                 upVars, rendVars>>

\* =========================================================================
\* Renderer: the Carplay component's mount effects and usb-event handlers
\* =========================================================================

\* Mount: `await window.carplay.ipc.start()`, then the usb-event listener and
\* the getLastEvent() request.
RendererMount ==
  /\ webContents
  /\ ~mounted
  /\ mounted' = TRUE
  /\ ipcQ' = ipcQ \o <<"start", "last">>
  /\ UNCHANGED <<auxVars, rstIo, envVars, watchVars, notifVars, rstVars, startVars, stopVars,
                 timerVars, devVars, flagVars, sessVars, upVars,
                 hasStartedRef>>

\* onUsbConnect
onUsbConnect ==
  /\ rendQ # <<>>
  /\ Head(rendQ) = "plugged"
  /\ rendQ' = Tail(rendQ)
  /\ IF ~hasStartedRef
     THEN /\ hasStartedRef' = TRUE
          /\ ipcQ' = Append(ipcQ, "start")
     ELSE UNCHANGED <<hasStartedRef, ipcQ>>
  /\ UNCHANGED <<auxVars, rstIo, envVars, watchVars, notifLast, notifPrev, rstVars, startVars,
                 stopVars, timerVars, devVars, flagVars, sessVars, upVars,
                 mounted>>

\* onUsbDisconnect
onUsbDisconnect ==
  /\ rendQ # <<>>
  /\ Head(rendQ) = "unplugged"
  /\ rendQ' = Tail(rendQ)
  /\ hasStartedRef' = FALSE
  /\ ipcQ' = Append(ipcQ, "stop")
  /\ UNCHANGED <<auxVars, rstIo, envVars, watchVars, notifLast, notifPrev, rstVars, startVars,
                 stopVars, timerVars, devVars, flagVars, sessVars, upVars,
                 mounted>>

\* ipcMain.handle('carplay-start'), requested by the renderer
RendererStart ==
  /\ ipcQ # <<>>
  /\ Head(ipcQ) = "start"
  /\ ipcQ' = Tail(ipcQ)
  /\ start
  /\ UNCHANGED <<auxVars, rstIo, envVars, watchVars, notifVars, rstVars, stopVars, timerVars,
                 devVars, flagVars, sessVars, upVars, mounted, hasStartedRef>>

\* ipcMain.handle('carplay-stop'), requested by the renderer
RendererStop ==
  /\ ipcQ # <<>>
  /\ Head(ipcQ) = "stop"
  /\ ipcQ' = Tail(ipcQ)
  /\ stop
  /\ UNCHANGED <<auxVars, rstIo, envVars, watchVars, notifVars, rstVars, startVars, devVars,
                 flagVars, sessVars, upVars, mounted, hasStartedRef>>

\* ipcMain.handle('usb-last-event'): the reply is handled like a usb-event.
UsbLastEvent ==
  /\ ipcQ # <<>>
  /\ Head(ipcQ) = "last"
  /\ ipcQ' = Tail(ipcQ)
  /\ rendQ' = IF ~usbUp THEN rendQ
              ELSE Append(rendQ, IF lastDongleState /\ devPresent
                                 THEN "plugged" ELSE "unplugged")
  /\ UNCHANGED <<auxVars, rstIo, envVars, watchVars, notifLast, notifPrev, rstVars, startVars,
                 stopVars, timerVars, devVars, flagVars, sessVars, upVars,
                 mounted, hasStartedRef>>

\* =========================================================================
\* Audio: the shared ring buffer and the PCM worklet (audio.worklet.js)
\* =========================================================================

\* Everything but the audio path.
notAudio == <<coreVars, decVars, touchVars, micVars, recVars, mediaVars,
              streakVars, drawVars, hbVars, updVars>>

\* The sample d places after sample v.
SampleAfter(v, d) == ((v - 1 + d) % SampleMod) + 1

\* RingBuffReader.getReadInfo().available
getReadInfo ==
  (writePointer + StorageLen - readPointer) % StorageLen

\* The single writer: it writes n samples into free cells only, then
\* advances the write index; one cell always stays free.
RingWrite ==
  /\ \E n \in 1..(StorageLen - 1 - getReadInfo) :
       /\ storage' = [i \in 1..StorageLen |->
                        LET d == ((i - 1) + StorageLen - writePointer) % StorageLen
                        IN IF d < n THEN SampleAfter(wseq, d) ELSE storage[i]]
       /\ writePointer' = (writePointer + n) % StorageLen
       /\ wseq' = SampleAfter(wseq, n)
       /\ unread' = unread + n
  /\ UNCHANGED <<notAudio, readPointer, rseq, cfgVars, wlVars, outVars,
                 portVars>>

\* readTo that copies the part up to the end of the storage only.
readTo_NoWrap(len) ==
  LET readPos == readPointer
      available == getReadInfo
      readLength == Min(available, len)
      first == Min(StorageLen - readPos, readLength)
      second == readLength - first
  IN IF available = 0
     THEN /\ readerOutput' = <<>>
          /\ UNCHANGED <<readPointer, rseq, unread>>
     ELSE /\ readerOutput' = SubSeq(storage, readPos + 1, readPos + first)
                              \o [i \in 1..second |-> 0]
          /\ readPointer' = (readPos + readLength) % StorageLen
          /\ rseq' = SampleAfter(rseq, readLength)
          /\ unread' = unread - readLength

\* RingBuffReader.readTo(target) with target.length = len; readerOutput is
\* the part of the target it filled.
readTo(len) ==
  LET readPos == readPointer
      available == getReadInfo
      readLength == Min(available, len)
      first == Min(StorageLen - readPos, readLength)
      second == readLength - first
  IN IF available = 0
     THEN /\ readerOutput' = <<>>
          /\ UNCHANGED <<readPointer, rseq, unread>>
     ELSE /\ readerOutput' = SubSeq(storage, readPos + 1, readPos + first)
                              \o SubSeq(storage, 1, second)
          /\ readPointer' = (readPos + readLength) % StorageLen
          /\ rseq' = SampleAfter(rseq, readLength)
          /\ unread' = unread - readLength

\* new PCMWorklet(options): the channel count and the preroll depths (in
\* quanta) that quantaFromMs gives for prerollMs and maxPrerollMs, for a
\* prerollMs of at most 40 ms; PCMWorkletOptions has the longer ones.
PCMWorklet ==
  /\ wlPc = "new"
  /\ \E ch \in {1, 2}, baseQ \in 1..MaxPrerollQ :
       \E maxQ \in baseQ..MaxPrerollQ :
         /\ channels' = ch
         /\ basePrerollQ' = baseQ
         /\ targetPrerollQ' = baseQ
         /\ maxPrerollQ' = maxQ
  /\ wlPc' = "idle"
  /\ UNCHANGED <<notAudio, ringVars, primed, stableBlocks, softUnderruns,
                 reportedUnderrun, aligned, outVars, portVars>>

\* this.port.postMessage({ t })
postMessage(t) ==
  /\ portPrev' = portLast
  /\ portLast' = t

\* process() that primes on one quantum of samples, whatever the target.
ProcessBegin_NoPreroll ==
  /\ wlPc = "idle"
  /\ LET available == getReadInfo
         needSamples == RENDER_QUANTUM_FRAMES * channels
         nowPrimed == primed \/ available >= needSamples
         want == Min(needSamples, available)
         al == want - (want % channels)
     IN IF ~nowPrimed
        THEN /\ outKind' = "silence"
             /\ framesGot' = 0
             /\ outSeq' = Flip(outSeq)
             /\ readerOutput' = <<>>
             /\ UNCHANGED <<wlVars, portVars>>
        ELSE IF al = 0
        THEN /\ outKind' = "last"
             /\ framesGot' = 0
             /\ outSeq' = Flip(outSeq)
             /\ primed' = FALSE
             /\ targetPrerollQ' = IF targetPrerollQ < maxPrerollQ
                                  THEN targetPrerollQ + 1 ELSE targetPrerollQ
             /\ stableBlocks' = 0
             /\ softUnderruns' = 0
             /\ IF ~reportedUnderrun
                THEN postMessage("underrun") /\ reportedUnderrun' = TRUE
                ELSE UNCHANGED <<portVars, reportedUnderrun>>
             /\ readerOutput' = <<>>
             /\ UNCHANGED <<wlPc, aligned>>
        ELSE /\ primed' = TRUE
             /\ IF ~primed
                THEN stableBlocks' = 0 /\ softUnderruns' = 0
                ELSE UNCHANGED <<stableBlocks, softUnderruns>>
             /\ aligned' = al
             /\ wlPc' = "readTo"
             /\ readerOutput' = <<>>
             /\ UNCHANGED <<targetPrerollQ, reportedUnderrun, portVars,
                            outKind, framesGot, outSeq>>
  /\ UNCHANGED <<notAudio, ringVars, cfgVars>>

\* process() that stays primed through a hard underrun.
ProcessBegin_StaysPrimed ==
  /\ wlPc = "idle"
  /\ LET available == getReadInfo
         needSamples == RENDER_QUANTUM_FRAMES * channels
         nowPrimed == primed \/ available >= targetPrerollQ * needSamples
         want == Min(needSamples, available)
         al == want - (want % channels)
     IN IF ~nowPrimed
        THEN /\ outKind' = "silence"
             /\ framesGot' = 0
             /\ outSeq' = Flip(outSeq)
             /\ readerOutput' = <<>>
             /\ UNCHANGED <<wlVars, portVars>>
        ELSE IF al = 0
        THEN /\ outKind' = "last"
             /\ framesGot' = 0
             /\ outSeq' = Flip(outSeq)
             /\ primed' = primed
             /\ targetPrerollQ' = IF targetPrerollQ < maxPrerollQ
                                  THEN targetPrerollQ + 1 ELSE targetPrerollQ
             /\ stableBlocks' = 0
             /\ softUnderruns' = 0
             /\ IF ~reportedUnderrun
                THEN postMessage("underrun") /\ reportedUnderrun' = TRUE
                ELSE UNCHANGED <<portVars, reportedUnderrun>>
             /\ readerOutput' = <<>>
             /\ UNCHANGED <<wlPc, aligned>>
        ELSE /\ primed' = TRUE
             /\ IF ~primed
                THEN stableBlocks' = 0 /\ softUnderruns' = 0
                ELSE UNCHANGED <<stableBlocks, softUnderruns>>
             /\ aligned' = al
             /\ wlPc' = "readTo"
             /\ readerOutput' = <<>>
             /\ UNCHANGED <<targetPrerollQ, reportedUnderrun, portVars,
                            outKind, framesGot, outSeq>>
  /\ UNCHANGED <<notAudio, ringVars, cfgVars>>

\* process() up to its call of readTo: getReadInfo, priming, the aligned
\* length, the hard underrun.
ProcessBegin ==
  /\ wlPc = "idle"
  /\ LET available == getReadInfo
         needSamples == RENDER_QUANTUM_FRAMES * channels
         nowPrimed == primed \/ available >= targetPrerollQ * needSamples
         want == Min(needSamples, available)
         al == want - (want % channels)
     IN IF ~nowPrimed
        THEN /\ outKind' = "silence"
             /\ framesGot' = 0
             /\ outSeq' = Flip(outSeq)
             /\ readerOutput' = <<>>
             /\ UNCHANGED <<wlVars, portVars>>
        ELSE IF al = 0
        THEN /\ outKind' = "last"
             /\ framesGot' = 0
             /\ outSeq' = Flip(outSeq)
             /\ primed' = FALSE
             /\ targetPrerollQ' = IF targetPrerollQ < maxPrerollQ
                                  THEN targetPrerollQ + 1 ELSE targetPrerollQ
             /\ stableBlocks' = 0
             /\ softUnderruns' = 0
             /\ IF ~reportedUnderrun
                THEN postMessage("underrun") /\ reportedUnderrun' = TRUE
                ELSE UNCHANGED <<portVars, reportedUnderrun>>
             /\ readerOutput' = <<>>
             /\ UNCHANGED <<wlPc, aligned>>
        ELSE /\ primed' = TRUE
             /\ IF ~primed
                THEN stableBlocks' = 0 /\ softUnderruns' = 0
                ELSE UNCHANGED <<stableBlocks, softUnderruns>>
             /\ aligned' = al
             /\ wlPc' = "readTo"
             /\ readerOutput' = <<>>
             /\ UNCHANGED <<targetPrerollQ, reportedUnderrun, portVars,
                            outKind, framesGot, outSeq>>
  /\ UNCHANGED <<notAudio, ringVars, cfgVars>>

\* process() that reports a recovery without closing the episode.
ProcessReadTo_KeepsReported ==
  /\ wlPc = "readTo"
  /\ readTo(aligned)
  /\ wlPc' = "idle"
  /\ aligned' = 0
  /\ outKind' = "data"
  /\ outSeq' = Flip(outSeq)
  /\ framesGot' = Len(readerOutput') \div channels
  /\ IF framesGot' = RENDER_QUANTUM_FRAMES
     THEN /\ \E shrink \in (IF stableBlocks + 1 < MaxStable
                             THEN {stableBlocks + 1 >= StableBlocksToShrink}
                             ELSE BOOLEAN) :
               IF shrink /\ targetPrerollQ > basePrerollQ
               THEN /\ targetPrerollQ' = targetPrerollQ - 1
                    /\ stableBlocks' = 0
               ELSE /\ targetPrerollQ' = targetPrerollQ
                    /\ stableBlocks' = Min(stableBlocks + 1, MaxStable)
          /\ softUnderruns' = 0
          /\ IF reportedUnderrun
             THEN postMessage("recovered") /\ UNCHANGED reportedUnderrun
             ELSE UNCHANGED <<portVars, reportedUnderrun>>
     ELSE /\ stableBlocks' = 0
          /\ IF softUnderruns + 1 >= SoftUnderrunsToGrow
                /\ targetPrerollQ < maxPrerollQ
             THEN /\ targetPrerollQ' = targetPrerollQ + 1
                  /\ softUnderruns' = 0
             ELSE /\ targetPrerollQ' = targetPrerollQ
                  /\ softUnderruns' = Min(softUnderruns + 1,
                                          SoftUnderrunsToGrow)
          /\ UNCHANGED <<portVars, reportedUnderrun>>
  /\ UNCHANGED <<notAudio, storage, writePointer, wseq, channels, basePrerollQ, maxPrerollQ, primed>>

\* process() from its call of readTo to its end: the copy into the output
\* and the streak accounting. A streak is counted one by one up to MaxStable
\* quanta; beyond that it may or may not have reached StableBlocksToShrink.
ProcessReadTo ==
  /\ wlPc = "readTo"
  /\ readTo(aligned)
  /\ wlPc' = "idle"
  /\ aligned' = 0
  /\ outKind' = "data"
  /\ outSeq' = Flip(outSeq)
  /\ framesGot' = Len(readerOutput') \div channels
  /\ IF framesGot' = RENDER_QUANTUM_FRAMES
     THEN /\ \E shrink \in (IF stableBlocks + 1 < MaxStable
                             THEN {stableBlocks + 1 >= StableBlocksToShrink}
                             ELSE BOOLEAN) :
               IF shrink /\ targetPrerollQ > basePrerollQ
               THEN /\ targetPrerollQ' = targetPrerollQ - 1
                    /\ stableBlocks' = 0
               ELSE /\ targetPrerollQ' = targetPrerollQ
                    /\ stableBlocks' = Min(stableBlocks + 1, MaxStable)
          /\ softUnderruns' = 0
          /\ IF reportedUnderrun
             THEN postMessage("recovered") /\ reportedUnderrun' = FALSE
             ELSE UNCHANGED <<portVars, reportedUnderrun>>
     ELSE /\ stableBlocks' = 0
          /\ IF softUnderruns + 1 >= SoftUnderrunsToGrow
                /\ targetPrerollQ < maxPrerollQ
             THEN /\ targetPrerollQ' = targetPrerollQ + 1
                  /\ softUnderruns' = 0
             ELSE /\ targetPrerollQ' = targetPrerollQ
                  /\ softUnderruns' = Min(softUnderruns + 1,
                                          SoftUnderrunsToGrow)
          /\ UNCHANGED <<portVars, reportedUnderrun>>
  /\ UNCHANGED <<notAudio, storage, writePointer, wseq, channels, basePrerollQ, maxPrerollQ, primed>>

\* =========================================================================
\* Video: the render worker's decoder gating (Render.worker.ts)
\* =========================================================================

\* Everything but the render worker.
notDecoder == <<coreVars, audioVars, touchVars, micVars, recVars, mediaVars,
                streakVars, drawVars, hbVars, updVars>>

\* evaluateRendererCapabilities(): the first available renderer's hardware
\* and software decoder support (nothing is recorded when none is available).
evaluateRendererCapabilities ==
  /\ ~hardwareAccelerationTested
  /\ \E hw \in BOOLEAN, sw \in BOOLEAN :
       /\ hw \/ sw
       /\ hardwareAccelerationTested' = TRUE
       /\ rendererHwSupported' = hw
       /\ rendererSwSupported' = sw
  /\ UNCHANGED <<notDecoder, isConfigured, lastSPS, awaitingValidKeyframe,
                 decoderMode, chunkCount, firstChunk, lastChunk, seenSps,
                 seenKey, deltaDropped, pkt, rawLast, rawSeq>>

\* configureDecoder(config): the mode whose configure() call is accepted,
\* "none" when it returns false.
configureDecoder(b) ==
  IF rendererHwSupported /\ b.hw THEN "prefer-hardware"
  ELSE IF rendererSwSupported /\ b.sw THEN "prefer-software"
  ELSE "none"

\* this.decoder.decode(chunk) accepted a chunk of type t.
decode(t) ==
  /\ chunkCount' = Min(chunkCount + 1, MaxChunks)
  /\ firstChunk' = IF chunkCount = 0 THEN t ELSE firstChunk
  /\ lastChunk' = t

\* processRaw that does not wait for a keyframe.
processRaw_NoKeyframeGate(b) ==
  /\ rawSeq' = Flip(rawSeq)
  /\ pkt' = b
  /\ UNCHANGED <<rendererHwSupported, rendererSwSupported,
                 hardwareAccelerationTested>>
  /\ IF b.bytes = 0
     THEN /\ rawLast' = "empty"
          /\ UNCHANGED <<isConfigured, lastSPS, awaitingValidKeyframe,
                         decoderMode, chunkCount, firstChunk, lastChunk,
                         seenSps, seenKey, deltaDropped>>
     ELSE /\ seenSps' = (seenSps \/ b.sps)
          /\ seenKey' = (seenKey \/ b.key)
          /\ lastSPS' = (lastSPS \/ (b.sps /\ ~isConfigured))
          /\ IF FALSE
             THEN /\ rawLast' = "delta-ignored"
                  /\ deltaDropped' = TRUE
                  /\ UNCHANGED <<isConfigured, awaitingValidKeyframe,
                                 decoderMode, chunkCount, firstChunk,
                                 lastChunk>>
             ELSE IF /\ b.key /\ lastSPS' /\ ~isConfigured
                     /\ b.cfg /\ configureDecoder(b) # "none"
             THEN /\ isConfigured' = TRUE
                  /\ decoderMode' = configureDecoder(b)
                  /\ UNCHANGED deltaDropped
                  /\ IF b.dec
                     THEN /\ decode("key")
                          /\ awaitingValidKeyframe' = FALSE
                          /\ rawLast' = "first-key-decoded"
                     ELSE /\ rawLast' = "first-key-failed"
                          /\ UNCHANGED <<awaitingValidKeyframe, chunkCount,
                                         firstChunk, lastChunk>>
             ELSE /\ UNCHANGED <<isConfigured, awaitingValidKeyframe,
                                 decoderMode, deltaDropped>>
                  /\ IF ~isConfigured
                     THEN /\ rawLast' = "not-ready"
                          /\ UNCHANGED <<chunkCount, firstChunk, lastChunk>>
                     ELSE IF b.dec
                     THEN /\ decode(IF b.key THEN "key" ELSE "delta")
                          /\ rawLast' = "decoded"
                     ELSE /\ rawLast' = "decode-error"
                          /\ UNCHANGED <<chunkCount, firstChunk, lastChunk>>
  /\ UNCHANGED notDecoder

\* processRaw(buffer)
processRaw(b) ==
  /\ rawSeq' = Flip(rawSeq)
  /\ pkt' = b
  /\ UNCHANGED <<rendererHwSupported, rendererSwSupported,
                 hardwareAccelerationTested>>
  /\ IF b.bytes = 0
     THEN /\ rawLast' = "empty"
          /\ UNCHANGED <<isConfigured, lastSPS, awaitingValidKeyframe,
                         decoderMode, chunkCount, firstChunk, lastChunk,
                         seenSps, seenKey, deltaDropped>>
     ELSE /\ seenSps' = (seenSps \/ b.sps)
          /\ seenKey' = (seenKey \/ b.key)
          /\ lastSPS' = (lastSPS \/ (b.sps /\ ~isConfigured))
          /\ IF awaitingValidKeyframe /\ ~b.key
             THEN /\ rawLast' = "delta-ignored"
                  /\ deltaDropped' = TRUE
                  /\ UNCHANGED <<isConfigured, awaitingValidKeyframe,
                                 decoderMode, chunkCount, firstChunk,
                                 lastChunk>>
             ELSE IF /\ b.key /\ lastSPS' /\ ~isConfigured
                     /\ b.cfg /\ configureDecoder(b) # "none"
             THEN /\ isConfigured' = TRUE
                  /\ decoderMode' = configureDecoder(b)
                  /\ UNCHANGED deltaDropped
                  /\ IF b.dec
                     THEN /\ decode("key")
                          /\ awaitingValidKeyframe' = FALSE
                          /\ rawLast' = "first-key-decoded"
                     ELSE /\ rawLast' = "first-key-failed"
                          /\ UNCHANGED <<awaitingValidKeyframe, chunkCount,
                                         firstChunk, lastChunk>>
             ELSE /\ UNCHANGED <<isConfigured, awaitingValidKeyframe,
                                 decoderMode, deltaDropped>>
                  /\ IF ~isConfigured \/ awaitingValidKeyframe
                     THEN /\ rawLast' = "not-ready"
                          /\ UNCHANGED <<chunkCount, firstChunk, lastChunk>>
                     ELSE IF b.dec
                     THEN /\ decode(IF b.key THEN "key" ELSE "delta")
                          /\ rawLast' = "decoded"
                     ELSE /\ rawLast' = "decode-error"
                          /\ UNCHANGED <<chunkCount, firstChunk, lastChunk>>
  /\ UNCHANGED notDecoder

\* videoPort.onmessage: one packet arrives from the video port.
VideoPortMessage == \E b \in RawInputs : processRaw(b)

\* =========================================================================
\* Touch: useCarplayMultiTouch (renderer) and the touch channels (main)
\* =========================================================================

\* Everything but the touch path.
notTouch == <<coreVars, audioVars, decVars, micVars, recVars, mediaVars,
              streakVars, drawVars, hbVars, updVars>>

\* v < 0 and v > 1 as JavaScript compares: false for NaN.
LtZero(v) == v.k = "ninf" \/ (v.k = "fin" /\ v.v < 0)
GtOne(v) == v.k = "inf" \/ (v.k = "fin" /\ v.v > One)

\* a / w for integers a and w >= 0; the widths used divide a * One.
Div(a, w) ==
  IF w = 0
  THEN IF a = 0 THEN NaN ELSE IF a > 0 THEN PosInf ELSE NegInf
  ELSE Fin((a * One) \div w)

\* clamp01 of the hook
clamp01(v) == IF LtZero(v) THEN Fin(0) ELSE IF GtOne(v) THEN Fin(One) ELSE v

\* to01 of the 'carplay-multi-touch' handler
to01(v) ==
  LET n == IF v.k = "fin" THEN v ELSE Fin(0)
  IN IF LtZero(n) THEN Fin(0) ELSE IF GtOne(n) THEN Fin(One) ELSE n

\* A pointer event's clientX / clientY and the element's bounding rectangle
\* (its left and top are 0).
ClientPoints == {<<0, 1>>, <<3, 1>>}
Rects == {[width |-> One, height |-> One], [width |-> 0, height |-> One]}

\* norm(el, cx, cy)
norm(r, c) ==
  [x |-> clamp01(Div(c[1], r.width)), y |-> clamp01(Div(c[2], r.height))]

\* The positions norm() gives to the pointer events.
Positions == {norm(r, c) : r \in Rects, c \in ClientPoints}

\* Map.set and Map.delete
MapSet(m, k, v) == [i \in DOMAIN m \cup {k} |-> IF i = k THEN v ELSE m[i]]
MapDelete(m, k) == [i \in DOMAIN m \ {k} |-> m[i]]

\* alloc(pid): the slot it returns and how it found it.
allocHow(pid) ==
  IF pid \in DOMAIN slotByPointerId THEN "old"
  ELSE IF freeSlots # <<>> THEN "reuse" ELSE "fresh"

allocSlot(pid) ==
  IF pid \in DOMAIN slotByPointerId THEN slotByPointerId[pid]
  ELSE IF freeSlots # <<>> THEN freeSlots[Len(freeSlots)] ELSE nextSlot

\* alloc(pid): what it changes.
alloc(pid) ==
  IF pid \in DOMAIN slotByPointerId
  THEN UNCHANGED <<slotByPointerId, freeSlots, nextSlot>>
  ELSE /\ slotByPointerId' = MapSet(slotByPointerId, pid, allocSlot(pid))
       /\ IF freeSlots # <<>>
          THEN /\ freeSlots' = SubSeq(freeSlots, 1, Len(freeSlots) - 1)
               /\ nextSlot' = nextSlot
          ELSE /\ freeSlots' = freeSlots
               /\ nextSlot' = nextSlot + 1

\* free that leaves the slot's position in the active map.
free_KeepsActive(pid, act) ==
  IF pid \in DOMAIN slotByPointerId
  THEN /\ slotByPointerId' = MapDelete(slotByPointerId, pid)
       /\ active' = act
       /\ freeSlots' = Append(freeSlots, slotByPointerId[pid])
  ELSE /\ active' = act
       /\ UNCHANGED <<slotByPointerId, freeSlots>>

\* free(pid), called with the active map act
free(pid, act) ==
  IF pid \in DOMAIN slotByPointerId
  THEN /\ slotByPointerId' = MapDelete(slotByPointerId, pid)
       /\ active' = MapDelete(act, slotByPointerId[pid])
       /\ freeSlots' = Append(freeSlots, slotByPointerId[pid])
  ELSE /\ active' = act
       /\ UNCHANGED <<slotByPointerId, freeSlots>>

\* window.carplay.ipc.sendTouch(x, y, action): the message it sends.
sendTouch(pos, action) ==
  [ch |-> "carplay-touch", x |-> pos.x, y |-> pos.y, action |-> action,
   points |-> {}]

\* sendFullFrame(overrides), called with the active map act: the message it
\* sends, none when there is no point. Its second loop adds nothing, as
\* every override it is called with names a slot of the active map.
sendFullFrame(act, overrides) ==
  LET pts == {[id |-> s, x |-> act[s].x, y |-> act[s].y,
               action |-> IF s \in DOMAIN overrides THEN overrides[s]
                          ELSE "Move"] : s \in DOMAIN act}
  IN IF pts = {} THEN NoMessage
     ELSE [ch |-> "carplay-multi-touch", x |-> Fin(0), y |-> Fin(0),
           action |-> "none", points |-> pts]

\* What every pointer event handler starts with: the event and norm().
PointerEvent(type, pid, ptype, pos, how) ==
  /\ evSeq' = Flip(evSeq)
  /\ lastEvent' = [type |-> type, pid |-> IF ptype = "touch" THEN pid ELSE 0,
                   pos |-> pos, alloc |-> how]
  /\ UNCHANGED <<notTouch, driverSent, sendSeq>>

onPointerDown ==
  \E pid \in Pointers \cup {0}, pos \in Positions :
    LET ptype == pointerType(pid)
        id == allocSlot(pid)
        act == MapSet(active, id, pos)
    IN IF ptype = "mouse"
       THEN /\ PointerEvent("down", pid, ptype, pos, "none")
            /\ mouseDown' = TRUE
            /\ touchIpc' = sendTouch(pos, "Down")
            /\ UNCHANGED <<slotByPointerId, active, freeSlots, nextSlot,
                           isDown, lastPos>>
       ELSE /\ PointerEvent("down", pid, ptype, pos, allocHow(pid))
            /\ alloc(pid)
            /\ active' = act
            /\ touchIpc' = sendFullFrame(act, MapSet(<<>>, id, "Down"))
            /\ isDown' = isDown \cup {pid}
            /\ lastPos' = MapSet(lastPos, pid, pos)
            /\ UNCHANGED mouseDown

onPointerMove ==
  \E pid \in Pointers \cup {0}, pos \in Positions :
    LET ptype == pointerType(pid)
    IN /\ PointerEvent("move", pid, ptype, pos, "none")
       /\ UNCHANGED <<slotByPointerId, freeSlots, nextSlot, mouseDown,
                      isDown>>
       /\ IF ptype = "mouse"
          THEN /\ touchIpc' = IF mouseDown THEN sendTouch(pos, "Move")
                              ELSE NoMessage
               /\ UNCHANGED <<active, lastPos>>
          ELSE /\ lastPos' = IF pid \in isDown THEN MapSet(lastPos, pid, pos)
                             ELSE lastPos
               /\ IF pid \notin DOMAIN slotByPointerId
                  THEN touchIpc' = NoMessage /\ UNCHANGED active
                  ELSE LET act == MapSet(active, slotByPointerId[pid], pos)
                       IN /\ active' = act
                          /\ touchIpc' = sendFullFrame(act, <<>>)

\* finishPointer that frees the slot before it sends the frame.
finishPointer_FreeFirst ==
  \E pid \in Pointers \cup {0}, pos \in Positions :
    LET ptype == pointerType(pid)
    IN /\ PointerEvent("finish", pid, ptype, pos, "none")
       /\ UNCHANGED nextSlot
       /\ IF ptype = "mouse"
          THEN /\ touchIpc' = IF mouseDown THEN sendTouch(pos, "Up")
                              ELSE NoMessage
               /\ mouseDown' = FALSE
               /\ UNCHANGED <<slotByPointerId, active, freeSlots, isDown,
                              lastPos>>
          ELSE /\ isDown' = isDown \ {pid}
               /\ lastPos' = MapDelete(lastPos, pid)
               /\ UNCHANGED mouseDown
               /\ IF pid \notin DOMAIN slotByPointerId
                  THEN /\ touchIpc' = NoMessage
                       /\ UNCHANGED <<slotByPointerId, active, freeSlots>>
                  ELSE LET id == slotByPointerId[pid]
                           act == MapSet(active, id, pos)
                       IN /\ free(pid, act)
                          /\ touchIpc' = sendFullFrame(MapDelete(act, id),
                                                       MapSet(<<>>, id, "Up"))

\* finishPointer(e): onPointerUp, onPointerCancel and onLostPointerCapture
finishPointer ==
  \E pid \in Pointers \cup {0}, pos \in Positions :
    LET ptype == pointerType(pid)
    IN /\ PointerEvent("finish", pid, ptype, pos, "none")
       /\ UNCHANGED nextSlot
       /\ IF ptype = "mouse"
          THEN /\ touchIpc' = IF mouseDown THEN sendTouch(pos, "Up")
                              ELSE NoMessage
               /\ mouseDown' = FALSE
               /\ UNCHANGED <<slotByPointerId, active, freeSlots, isDown,
                              lastPos>>
          ELSE /\ isDown' = isDown \ {pid}
               /\ lastPos' = MapDelete(lastPos, pid)
               /\ UNCHANGED mouseDown
               /\ IF pid \notin DOMAIN slotByPointerId
                  THEN /\ touchIpc' = NoMessage
                       /\ UNCHANGED <<slotByPointerId, active, freeSlots>>
                  ELSE LET id == slotByPointerId[pid]
                           act == MapSet(active, id, pos)
                       IN /\ touchIpc' = sendFullFrame(act,
                                                       MapSet(<<>>, id, "Up"))
                          /\ free(pid, act)


\* The renderer's state, which the main process's channel handlers leave
\* alone.
hookVars == <<slotByPointerId, active, freeSlots, nextSlot, mouseDown,
              isDown, lastPos, lastEvent, evSeq>>

\* A message arrives on 'carplay-touch': any two numbers and an action.
ChannelTouch ==
  /\ touchIpc = NoMessage
  /\ \E x \in JsNumbers, y \in JsNumbers, a \in {"Down", "Move", "Up"} :
       touchIpc' = sendTouch([x |-> x, y |-> y], a)
  /\ UNCHANGED <<notTouch, hookVars, driverSent, sendSeq>>

\* A message arrives on 'carplay-multi-touch': points with any numbers.
ChannelMultiTouch ==
  /\ touchIpc = NoMessage
  /\ \E x \in JsNumbers, y \in JsNumbers, a \in {"Down", "Move", "Up"},
        more \in BOOLEAN :
       touchIpc' =
         [NoMessage EXCEPT
            !.ch = "carplay-multi-touch",
            !.points = {[id |-> 0, x |-> x, y |-> y, action |-> a]} \cup
                       (IF more
                        THEN {[id |-> 1, x |-> y, y |-> x, action |-> "Move"]}
                        ELSE {})]
  /\ UNCHANGED <<notTouch, hookVars, driverSent, sendSeq>>

\* ipcMain.on('carplay-touch'): the data goes into a SendTouch as it came.
OnCarplayTouch ==
  /\ touchIpc.ch = "carplay-touch"
  /\ driverSent' = touchIpc
  /\ sendSeq' = Flip(sendSeq)
  /\ touchIpc' = NoMessage
  /\ UNCHANGED <<notTouch, hookVars>>

\* ipcMain.on('carplay-multi-touch'): every point goes through to01.
OnCarplayMultiTouch ==
  /\ touchIpc.ch = "carplay-multi-touch"
  /\ driverSent' = [touchIpc EXCEPT !.points =
                      {[id |-> q.id, x |-> to01(q.x), y |-> to01(q.y),
                        action |-> q.action] : q \in touchIpc.points}]
  /\ sendSeq' = Flip(sendSeq)
  /\ touchIpc' = NoMessage
  /\ UNCHANGED <<notTouch, hookVars>>

\* =========================================================================
\* Microphone: the audio commands of the dongle (CarplayService, Carplay)
\* =========================================================================

\* Everything but the microphones.
notMic == <<envVars, watchVars, notifVars, rstVars, rstIo, startVars,
            stopVars, timerVars, devVars, flagVars, sessVars, upVars,
            rendVars, audioVars, decVars, touchVars, recVars, mediaVars,
            streakVars, drawVars, hbVars, updVars>>

StartCommands == {"AudioSiriStart", "AudioPhonecallStart"}
StopCommands == {"AudioSiriStop", "AudioPhonecallStop"}
AudioCommands == StartCommands \cup StopCommands \cup {"AudioOutputStart"}

\* The configuration the session runs with and the platform it runs on.
LoadConfig ==
  /\ ~configLoaded
  /\ configLoaded' = TRUE
  /\ audioTransferMode' \in BOOLEAN
  /\ recorder' \in BOOLEAN
  /\ UNCHANGED <<notMic, svcMic, nodeMic, micCmd, micSeq>>

\* Microphone.start(): stop(), then spawn the recorder; it returns without a
\* process when the platform has none.
MicrophoneStart == IF recorder THEN "Running" ELSE "Stopped"

\* What every audio command handler starts with.
AudioCommand(to, cmd) ==
  /\ configLoaded
  /\ micCmd' = [to |-> to, command |-> cmd]
  /\ micSeq' = Flip(micSeq)
  /\ UNCHANGED <<notMic, audioTransferMode, recorder, configLoaded>>

\* CarplayService's driver 'message' handler for an AudioData that carries a
\* command and no data.
ServiceAudioCommand ==
  \E cmd \in AudioCommands :
    /\ AudioCommand("CarplayService", cmd)
    /\ UNCHANGED nodeMic
    /\ IF ~webContents THEN UNCHANGED svcMic
       ELSE IF cmd \in StartCommands
       THEN IF audioTransferMode THEN UNCHANGED svcMic
            ELSE svcMic' = MicrophoneStart
       ELSE IF cmd \in StopCommands
       THEN svcMic' = IF svcMic = "null" THEN "null" ELSE "Stopped"
       ELSE UNCHANGED svcMic

\* The Carplay class's driver 'message' handler for an AudioData that
\* carries a command.
CarplayAudioCommand ==
  \E cmd \in AudioCommands :
    /\ AudioCommand("Carplay", cmd)
    /\ UNCHANGED svcMic
    /\ IF cmd \in StartCommands THEN nodeMic' = MicrophoneStart
       ELSE IF cmd \in StopCommands THEN nodeMic' = "Stopped"
       ELSE UNCHANGED nodeMic

\* The recorder process ends by itself: 'error' or 'close', then cleanup().
RecorderExit ==
  /\ svcMic = "Running" \/ nodeMic = "Running"
  /\ \E m \in {"CarplayService", "Carplay"} :
       /\ IF m = "CarplayService" THEN svcMic = "Running"
          ELSE nodeMic = "Running"
       /\ svcMic' = IF m = "CarplayService" THEN "Stopped" ELSE svcMic
       /\ nodeMic' = IF m = "Carplay" THEN "Stopped" ELSE nodeMic
  /\ UNCHANGED <<notMic, audioTransferMode, recorder, configLoaded, micCmd,
                 micSeq>>

\* =========================================================================
\* Microphone: the recorder processes (Microphone.ts)
\* =========================================================================

\* Everything but the Microphone object and its processes.
notRecorder == <<coreVars, audioVars, decVars, touchVars, micVars,
                 mediaVars, streakVars, drawVars, hbVars, updVars>>

\* Microphone.stop(), as a step of the process table: kill() the process
\* referenced, then cleanup().
MicrophoneStop(procs) ==
  IF micProcess # 0
  THEN [procs EXCEPT ![micProcess] =
          IF @ = "running" THEN "killed" ELSE @]
  ELSE procs

\* Microphone.start(): stop(), then spawn a recorder and keep it in
\* this.process; on a platform without a recorder it returns after stop().
MicStart ==
  /\ recOp' = "start"
  /\ recSeq' = Flip(recSeq)
  /\ \E found \in BOOLEAN :
       IF found
       THEN \E k \in 1..MaxProcs :
              /\ recProc[k] = "none"
              /\ recProc' = [MicrophoneStop(recProc) EXCEPT ![k] = "running"]
              /\ micProcess' = k
       ELSE /\ recProc' = MicrophoneStop(recProc)
            /\ micProcess' = 0
  /\ UNCHANGED notRecorder

\* Microphone.stop()
MicStop ==
  /\ recOp' = "stop"
  /\ recSeq' = Flip(recSeq)
  /\ recProc' = MicrophoneStop(recProc)
  /\ micProcess' = 0
  /\ UNCHANGED notRecorder

\* proc.on('close') of process k (after 'error' when it could not run):
\* the process is gone, and the handler calls this.cleanup().
ProcClose ==
  /\ \E k \in 1..MaxProcs :
       /\ recProc[k] # "none"
       /\ recProc' = [recProc EXCEPT ![k] = "none"]
  /\ micProcess' = 0
  /\ recOp' = "close"
  /\ recSeq' = Flip(recSeq)
  /\ UNCHANGED notRecorder

\* =========================================================================
\* Media metadata: the persisted payload and the renderer's merge
\* (part_006:151-171, Media.tsx:39-50)
\* =========================================================================

notMedia == <<coreVars, audioVars, decVars, touchVars, micVars, recVars,
              streakVars, drawVars, hbVars, updVars>>

\* undefined, for a field a payload does not carry
Undefined == "undefined"

\* Media bags: objects over a small set of keys. An absent bag in a message
\* is hasMedia = FALSE; readMediaFile never returns one (its default is {}).
MediaKeys == {"song", "artist"}
MediaValues == {"x", "y"}
MediaBags == UNION {[ks -> MediaValues] : ks \in SUBSET MediaKeys}
Images == {"", "imgA", "imgB"}

\* { ...prev, ...inc }
Spread(prev, inc) ==
  [k \in DOMAIN prev \cup DOMAIN inc |->
     IF k \in DOMAIN inc THEN inc[k] ELSE prev[k]]

\* MediaData messages: no payload, or a payload of either type with or
\* without a bag and with or without an image.
MediaDataMessages ==
  {[type |-> "none"]} \cup
  {[type |-> t, hasMedia |-> h, media |-> m, base64Image |-> i] :
     t \in {"Data", "AlbumCover"}, h \in BOOLEAN, m \in MediaBags,
     i \in Images \cup {Undefined}}

\* mergePayload(prev, inc) of the renderer, on media and base64Image; an
\* undefined media of the result reads back as {} (prev?.media ?? {}).
mergePayload(prev, inc) ==
  [media |-> Spread(prev.media, IF inc.hasMedia THEN inc.media ELSE <<>>),
   base64Image |-> IF inc.base64Image # Undefined
                   THEN inc.base64Image ELSE prev.base64Image]

\* The MediaData branch with the album-cover branch replacing the image
\* only: it does not copy the persisted bag.
MediaDataMessage_CoverOnly(msg) ==
  /\ mediaMsg' = msg
  /\ mediaSeq' = Flip(mediaSeq)
  /\ IF ~webContents \/ msg.type = "none"
     THEN UNCHANGED <<persistedMedia, persistedImage>>
     ELSE IF msg.type = "Data" /\ msg.hasMedia
     THEN /\ persistedMedia' = Spread(persistedMedia, msg.media)
          /\ persistedImage' = IF persistedImage \notin {Undefined, ""}
                               THEN persistedImage ELSE Undefined
     ELSE IF msg.type = "AlbumCover" /\ msg.base64Image \notin {Undefined, ""}
     THEN /\ persistedImage' = msg.base64Image
          /\ persistedMedia' = <<>>
     ELSE UNCHANGED <<persistedMedia, persistedImage>>
  /\ UNCHANGED notMedia

\* driver.on('message') for a MediaData: forward it and rewrite
\* mediaData.json from the file read back and the message.
MediaDataMessage(msg) ==
  /\ mediaMsg' = msg
  /\ mediaSeq' = Flip(mediaSeq)
  /\ IF ~webContents \/ msg.type = "none"
     THEN UNCHANGED <<persistedMedia, persistedImage>>
     ELSE IF msg.type = "Data" /\ msg.hasMedia
     THEN /\ persistedMedia' = Spread(persistedMedia, msg.media)
          /\ persistedImage' = IF persistedImage \notin {Undefined, ""}
                               THEN persistedImage ELSE Undefined
     ELSE IF msg.type = "AlbumCover" /\ msg.base64Image \notin {Undefined, ""}
     THEN /\ persistedImage' = msg.base64Image
          /\ persistedMedia' = persistedMedia
     ELSE UNCHANGED <<persistedMedia, persistedImage>>
  /\ UNCHANGED notMedia

\* =========================================================================
\* The worklet's preroll accounting over whole process() calls
\* (audio.worklet.js:85-123, 171-258)
\* =========================================================================

notStreak == <<coreVars, decVars, touchVars, micVars, recVars, mediaVars,
               drawVars, hbVars, updVars>>

\* quantaFromMs(ms, sr) = max(1, ceil(ms / 1000 * sr / 128))
quantaFromMs(ms, sr) ==
  LET q == (ms * sr + 127999) \div 128000
  IN IF q < 1 THEN 1 ELSE q

\* Stream rates and the prerollMs and maxPrerollMs options the worklet is
\* built with; 0 stands for an option left out.
SampleRates == {48000}
PrerollMsOptions == {0, 48}
MaxPrerollMsOptions == {0, 12}

\* new PCMWorklet(options), from the options in milliseconds
PCMWorkletOptions ==
  /\ wlPc = "new"
  /\ \E ch \in {1, 2}, sr \in SampleRates, prerollMs \in PrerollMsOptions,
        maxPrerollMs \in MaxPrerollMsOptions :
       LET baseMs == IF prerollMs > 0 THEN prerollMs ELSE 8
           maxMs == IF maxPrerollMs > baseMs THEN maxPrerollMs ELSE 40
       IN /\ channels' = ch
          /\ basePrerollQ' = quantaFromMs(baseMs, sr)
          /\ targetPrerollQ' = quantaFromMs(baseMs, sr)
          /\ maxPrerollQ' = quantaFromMs(maxMs, sr)
  /\ wlPc' = "idle"
  /\ UNCHANGED <<notStreak, streakVars, ringVars, primed, stableBlocks,
                 softUnderruns, reportedUnderrun, aligned, outVars, portVars>>

\* What getReadInfo answers, by the branch of process() it selects: nothing
\* channel-aligned, less than a quantum, a quantum but less than the target
\* preroll, or the target preroll.
Availabilities == {"none", "partial", "quantum", "preroll"}

\* process() whose 128th stable quantum does not shrink the target.
process_NeverShrinks(avail) ==
  /\ wlPc = "idle"
  /\ avail = "quantum" => targetPrerollQ > 1
  /\ outSeq' = Flip(outSeq)
  /\ readerOutput' = <<>>
  /\ IF ~primed /\ avail # "preroll"
     THEN /\ outKind' = "silence"
          /\ framesGot' = 0
          /\ UNCHANGED <<wlVars, portVars, fullRun>>
     ELSE IF avail = "none"
     THEN /\ outKind' = "last"
          /\ framesGot' = 0
          /\ primed' = FALSE
          /\ targetPrerollQ' = IF targetPrerollQ < maxPrerollQ
                               THEN targetPrerollQ + 1 ELSE targetPrerollQ
          /\ stableBlocks' = 0
          /\ softUnderruns' = 0
          /\ fullRun' = 0
          /\ IF ~reportedUnderrun
             THEN postMessage("underrun") /\ reportedUnderrun' = TRUE
             ELSE UNCHANGED <<portVars, reportedUnderrun>>
          /\ UNCHANGED <<wlPc, aligned>>
     ELSE /\ outKind' = "data"
          /\ primed' = TRUE
          /\ UNCHANGED <<wlPc, aligned>>
          /\ IF avail # "partial"
             THEN /\ framesGot' = RENDER_QUANTUM_FRAMES
                  /\ fullRun' = Min(fullRun + 1, StableBlocksToShrink)
                  /\ targetPrerollQ' = targetPrerollQ
                  /\ stableBlocks' =
                       Min((IF primed THEN stableBlocks ELSE 0) + 1,
                           StableBlocksToShrink)
                  /\ softUnderruns' = 0
                  /\ IF reportedUnderrun
                     THEN postMessage("recovered") /\ reportedUnderrun' = FALSE
                     ELSE UNCHANGED <<portVars, reportedUnderrun>>
             ELSE /\ framesGot' = 1
                  /\ fullRun' = 0
                  /\ stableBlocks' = 0
                  /\ LET soft == (IF primed THEN softUnderruns ELSE 0) + 1
                     IN IF soft >= SoftUnderrunsToGrow
                           /\ targetPrerollQ < maxPrerollQ
                        THEN /\ targetPrerollQ' = targetPrerollQ + 1
                             /\ softUnderruns' = 0
                        ELSE /\ targetPrerollQ' = targetPrerollQ
                             /\ softUnderruns' = Min(soft, SoftUnderrunsToGrow)
                  /\ UNCHANGED <<portVars, reportedUnderrun>>
  /\ UNCHANGED <<notStreak, ringVars, cfgVars>>

\* process(), one whole call, with the reader's answer as its input. The
\* samples are not followed here: a full quantum is framesGot = 128, a
\* partial one is fewer. stableBlocks is only ever compared with 128 and is
\* kept at 128 beyond it.
process(avail) ==
  /\ wlPc = "idle"
  /\ avail = "quantum" => targetPrerollQ > 1
  /\ outSeq' = Flip(outSeq)
  /\ readerOutput' = <<>>
  /\ IF ~primed /\ avail # "preroll"
     THEN /\ outKind' = "silence"
          /\ framesGot' = 0
          /\ UNCHANGED <<wlVars, portVars, fullRun>>
     ELSE IF avail = "none"
     THEN /\ outKind' = "last"
          /\ framesGot' = 0
          /\ primed' = FALSE
          /\ targetPrerollQ' = IF targetPrerollQ < maxPrerollQ
                               THEN targetPrerollQ + 1 ELSE targetPrerollQ
          /\ stableBlocks' = 0
          /\ softUnderruns' = 0
          /\ fullRun' = 0
          /\ IF ~reportedUnderrun
             THEN postMessage("underrun") /\ reportedUnderrun' = TRUE
             ELSE UNCHANGED <<portVars, reportedUnderrun>>
          /\ UNCHANGED <<wlPc, aligned>>
     ELSE /\ outKind' = "data"
          /\ primed' = TRUE
          /\ UNCHANGED <<wlPc, aligned>>
          /\ IF avail # "partial"
             THEN /\ framesGot' = RENDER_QUANTUM_FRAMES
                  /\ LET stable == (IF primed THEN stableBlocks ELSE 0) + 1
                     IN IF stable >= StableBlocksToShrink
                           /\ targetPrerollQ > basePrerollQ
                        THEN /\ targetPrerollQ' = targetPrerollQ - 1
                             /\ stableBlocks' = 0
                             /\ fullRun' = 0
                        ELSE /\ targetPrerollQ' = targetPrerollQ
                             /\ stableBlocks' = Min(stable, StableBlocksToShrink)
                             /\ fullRun' =
                                  Min(fullRun + 1, StableBlocksToShrink)
                  /\ softUnderruns' = 0
                  /\ IF reportedUnderrun
                     THEN postMessage("recovered") /\ reportedUnderrun' = FALSE
                     ELSE UNCHANGED <<portVars, reportedUnderrun>>
             ELSE /\ framesGot' = 1
                  /\ fullRun' = 0
                  /\ stableBlocks' = 0
                  /\ LET soft == (IF primed THEN softUnderruns ELSE 0) + 1
                     IN IF soft >= SoftUnderrunsToGrow
                           /\ targetPrerollQ < maxPrerollQ
                        THEN /\ targetPrerollQ' = targetPrerollQ + 1
                             /\ softUnderruns' = 0
                        ELSE /\ targetPrerollQ' = targetPrerollQ
                             /\ softUnderruns' = Min(soft, SoftUnderrunsToGrow)
                  /\ UNCHANGED <<portVars, reportedUnderrun>>
  /\ UNCHANGED <<notStreak, ringVars, cfgVars>>

\* Messages on the worklet's port: setPrerollMs and setRampMs with a few
\* values of ms.
PortMessages == [t : {"setPrerollMs", "setRampMs"}, ms : {0, 4, 24}]

\* this.port.onmessage. setRampMs changes the ramp only, which is not
\* followed here.
PortMessage(msg) ==
  /\ wlPc = "idle"
  /\ IF msg.t = "setPrerollMs" /\ msg.ms > 0
     THEN \E sr \in SampleRates :
            /\ basePrerollQ' = quantaFromMs(msg.ms, sr)
            /\ targetPrerollQ' =
                 IF targetPrerollQ > quantaFromMs(msg.ms, sr)
                 THEN targetPrerollQ ELSE quantaFromMs(msg.ms, sr)
     ELSE UNCHANGED <<basePrerollQ, targetPrerollQ>>
  /\ UNCHANGED <<notStreak, streakVars, ringVars, channels, maxPrerollQ,
                 primed, stableBlocks, softUnderruns, reportedUnderrun, wlPc,
                 aligned, outVars, portVars>>

\* =========================================================================
\* The render worker's frame pacing (Render.worker.ts:23-78)
\* =========================================================================

notDraw == <<coreVars, audioVars, decVars, touchVars, micVars, recVars,
            mediaVars, streakVars, hbVars, updVars>>

\* Decoded frames, told apart so that a newer frame differs from the one it
\* replaces, and the fps values the worker is told (0: none).
Frames == {1, 2}
FpsOptions == {0, 60, 250}

\* now - this.lastRenderTime < this.frameInterval, with frameInterval =
\* 1000 / targetFps
TooEarly == sinceRender * targetFps < 1000

\* setTargetFps(fps)
setTargetFps ==
  /\ \E fps \in FpsOptions :
       /\ fps # 0
       /\ fps # targetFps
       /\ targetFps' = fps
  /\ UNCHANGED <<notDraw, pendingFrame, renderScheduled, rafCallbacks,
                 sinceRender, lastDrawn, drawSeq>>

\* The VideoDecoder's output callback: renderFrame(frame)
renderFrame ==
  /\ renderScheduled \/ rafCallbacks < MaxCallbacks
  /\ \E frame \in Frames \ {pendingFrame} : pendingFrame' = frame
  /\ IF ~renderScheduled
     THEN renderScheduled' = TRUE /\ rafCallbacks' = rafCallbacks + 1
     ELSE UNCHANGED <<renderScheduled, rafCallbacks>>
  /\ UNCHANGED <<notDraw, sinceRender, targetFps, lastDrawn, drawSeq>>

\* renderAnimationFrame that gives up when it runs too early.
renderAnimationFrame_NoRetry ==
  /\ rafCallbacks > 0
  /\ renderScheduled' = FALSE
  /\ IF TooEarly
     THEN /\ rafCallbacks' = rafCallbacks - 1
          /\ UNCHANGED <<pendingFrame, sinceRender, lastDrawn, drawSeq>>
     ELSE /\ rafCallbacks' = rafCallbacks - 1
          /\ IF pendingFrame # 0
             THEN /\ lastDrawn' = pendingFrame
                  /\ drawSeq' = Flip(drawSeq)
                  /\ pendingFrame' = 0
                  /\ sinceRender' = 0
             ELSE UNCHANGED <<pendingFrame, sinceRender, lastDrawn, drawSeq>>
  /\ UNCHANGED <<notDraw, targetFps>>

\* renderAnimationFrame, one requested callback run by the browser
renderAnimationFrame ==
  /\ rafCallbacks > 0
  /\ renderScheduled' = FALSE
  /\ IF TooEarly
     THEN /\ rafCallbacks' = rafCallbacks
          /\ UNCHANGED <<pendingFrame, sinceRender, lastDrawn, drawSeq>>
     ELSE /\ rafCallbacks' = rafCallbacks - 1
          /\ IF pendingFrame # 0
             THEN /\ lastDrawn' = pendingFrame
                  /\ drawSeq' = Flip(drawSeq)
                  /\ pendingFrame' = 0
                  /\ sinceRender' = 0
             ELSE UNCHANGED <<pendingFrame, sinceRender, lastDrawn, drawSeq>>
  /\ UNCHANGED <<notDraw, targetFps>>

\* performance.now() moves on by a millisecond.
ClockTick ==
  /\ sinceRender < MaxElapsed
  /\ sinceRender' = sinceRender + 1
  /\ UNCHANGED <<notDraw, pendingFrame, renderScheduled, rafCallbacks,
                 targetFps, lastDrawn, drawSeq>>

\* =========================================================================
\* The frame heartbeat: the Plugged branch of CarplayService (part_006) and
\* of the Carplay class (part_005)
\* =========================================================================

notHb == <<coreVars, audioVars, decVars, touchVars, micVars, recVars,
          mediaVars, streakVars, drawVars, updVars>>

\* CarplayService, driver.on('message') for a Plugged, as far as timers go:
\* clearTimeouts() and nothing else. Its frameInterval field is never
\* assigned a timer (part_006:73, 334-343), so there is none to clear.
ServicePlugged ==
  /\ \E configured \in BOOLEAN : hbConfigured' = configured
  /\ hbWho' = "service"
  /\ hbSeq' = Flip(hbSeq)
  /\ UNCHANGED <<notHb, libFrameInterval, hbTimers, frameSeq>>

\* Carplay.clearFrameInterval(), as a step of the running timers
clearFrameInterval == hbTimers \ {libFrameInterval}

\* Carplay, driver.on('message') for a Plugged: clearFrameInterval(), then
\* setInterval when the phone type's frameInterval is set.
CarplayPlugged ==
  /\ \E configured \in BOOLEAN :
       /\ hbConfigured' = configured
       /\ IF configured
          THEN \E t \in (1..MaxTimers) \ hbTimers :
                 /\ libFrameInterval' = t
                 /\ hbTimers' = clearFrameInterval \cup {t}
          ELSE /\ libFrameInterval' = 0
               /\ hbTimers' = clearFrameInterval
  /\ hbWho' = "carplay"
  /\ hbSeq' = Flip(hbSeq)
  /\ UNCHANGED <<notHb, frameSeq>>

\* Carplay.stop(): clearPairTimeout(); clearFrameInterval(); close
CarplayStop ==
  /\ libFrameInterval # 0
  /\ libFrameInterval' = 0
  /\ hbTimers' = clearFrameInterval
  /\ UNCHANGED <<notHb, hbConfigured, hbWho, hbSeq, frameSeq>>

\* A running interval timer fires: dongleDriver.send(new SendCommand('frame'))
FrameIntervalFire ==
  /\ hbTimers # {}
  /\ frameSeq' = Flip(frameSeq)
  /\ UNCHANGED <<notHb, hbConfigured, hbWho, hbSeq, libFrameInterval, hbTimers>>

\* =========================================================================
\* The update session (src/main/index.ts:118-124, 282-390, 765-848)
\* =========================================================================

notUpd == <<coreVars, audioVars, decVars, touchVars, micVars, recVars,
           mediaVars, streakVars, drawVars, hbVars>>

\* updateSession = { state: 'idle' }
ResetSession ==
  /\ updState' = "idle"
  /\ updTmpFile' = 0
  /\ updCancel' = 0
  /\ updPlatform' = FALSE

\* A handler was called or resumed, and answered op.
Answer(op) == updOp' = op /\ updSeq' = Flip(updSeq)

\* updateSession.tmpFile = tmpFile; state = 'downloading';
\* downloadWithProgress(...); updateSession.cancel = ...; await promise
BeginDownload(k) ==
  /\ updTmpFile' = k
  /\ updState' = "downloading"
  /\ updCancel' = k
  /\ download' = [download EXCEPT ![k] = "running"]
  /\ updPc' = [updPc EXCEPT ![k] = "download"]
  /\ Answer("downloading")

\* ipcMain.handle('app:performUpdate'), up to its first await: the fetch of
\* the release feed, or with a direct URL the download.
performUpdate ==
  \E directUrl \in BOOLEAN, supported \in BOOLEAN :
    IF updState # "idle"
    THEN /\ ResetSession
         /\ Answer("rejected")
         /\ UNCHANGED <<notUpd, updPc, download>>
    ELSE IF ~supported
    THEN /\ Answer("unsupported")
         /\ UNCHANGED <<notUpd, updState, updTmpFile, updCancel, updPlatform,
                        updPc, download>>
    ELSE \E k \in 1..MaxUpdates :
           /\ updPc[k] = "idle"
           /\ updPlatform' = TRUE
           /\ IF directUrl
              THEN BeginDownload(k)
              ELSE /\ updPc' = [updPc EXCEPT ![k] = "fetch"]
                   /\ Answer("fetching")
                   /\ UNCHANGED <<updState, updTmpFile, updCancel, download>>
           /\ UNCHANGED notUpd

\* performUpdate after the feed was fetched: an asset URL was found, or the
\* fetch failed or found none.
FetchSettles ==
  \E k \in 1..MaxUpdates, ok \in BOOLEAN :
    /\ updPc[k] = "fetch"
    /\ IF ok
       THEN BeginDownload(k) /\ UNCHANGED updPlatform
       ELSE /\ ResetSession
            /\ updPc' = [updPc EXCEPT ![k] = "idle"]
            /\ Answer("error")
            /\ UNCHANGED download
    /\ UNCHANGED notUpd

\* performUpdate after `await promise`: the download finished, or failed, or
\* was cancelled (cancel() rejects it with 'aborted').
DownloadSettles ==
  \E k \in 1..MaxUpdates, ok \in BOOLEAN :
    /\ updPc[k] = "download"
    /\ updPc' = [updPc EXCEPT ![k] = "idle"]
    /\ download' = [download EXCEPT ![k] = "none"]
    /\ IF ok /\ download[k] = "running"
       THEN /\ updState' = "ready"
            /\ Answer("ready")
            /\ UNCHANGED <<updTmpFile, updCancel, updPlatform>>
       ELSE /\ ResetSession
            /\ Answer("error")
    /\ UNCHANGED notUpd

\* ipcMain.handle('app:abortUpdate')
abortUpdate ==
  /\ download' = IF updState = "downloading" /\ updCancel # 0
                 THEN [download EXCEPT ![updCancel] =
                         IF @ = "running" THEN "cancelled" ELSE @]
                 ELSE download
  /\ ResetSession
  /\ Answer("aborted")
  /\ UNCHANGED <<notUpd, updPc>>

\* ipcMain.handle('app:beginInstall'), up to the await of the installer
beginInstall ==
  /\ IF updState # "ready" \/ updTmpFile = 0 \/ ~updPlatform
     THEN /\ ResetSession
          /\ Answer("error")
          /\ UNCHANGED updPc
     ELSE \E k \in 1..MaxUpdates :
            /\ updPc[k] = "idle"
            /\ updState' = "installing"
            /\ updPc' = [updPc EXCEPT ![k] = "install"]
            /\ Answer("installing")
            /\ UNCHANGED <<updTmpFile, updCancel, updPlatform>>
  /\ UNCHANGED <<notUpd, download>>

\* beginInstall after the installer returned or threw
InstallSettles ==
  \E k \in 1..MaxUpdates, ok \in BOOLEAN :
    /\ updPc[k] = "install"
    /\ updPc' = [updPc EXCEPT ![k] = "idle"]
    /\ IF ok
       THEN /\ Answer("installed")
            /\ UNCHANGED <<updState, updTmpFile, updCancel, updPlatform>>
       ELSE /\ ResetSession
            /\ Answer("error")
    /\ UNCHANGED <<notUpd, download>>

\* =========================================================================
\* Specifications
\* =========================================================================

StartSteps ==
  \/ \E k \in Slots : StartCreateInstance(k)
  \/ \E k \in Slots : StartOpen(k)
  \/ \E k \in Slots : StartInitialise(k)
  \/ \E k \in Slots : StartDriverStart(k)
  \/ \E k \in Slots : StartCatchClose(k)

StopSteps ==
  \/ \E k \in Slots : StopDriverClose(k)
  \/ \E k \in Slots : StopDeviceClose(k)

\* The session: the host's start/stop requests are free, the dongle talks.
Next ==
  \/ attachRenderer
  \/ IpcStart
  \/ IpcStop
  \/ StartSteps
  \/ StopSteps
  \/ PairTimeoutFire
  \/ Tick
  \/ \E m \in Messages : OnMessage(m)
  \/ OnFailure
  \/ EnvPlug
  \/ EnvUnplug
  \/ USBService
  \/ OnAttach
  \/ OnDetach

Spec == Init /\ [][Next]_vars

\* The hot-plug watcher and the force resets.
NextUsb ==
  \/ StartSteps
  \/ StopSteps
  \/ EnvPlug
  \/ EnvUnplug
  \/ ReenumDrop
  \/ ReenumBack
  \/ USBService
  \/ OnAttach
  \/ OnDetach
  \/ forceReset
  \/ gracefulForceReset
  \/ GracefulReset
  \/ ResetCallback

SpecUsb == Init /\ [][NextUsb]_vars

\* Transport events drive the session through the renderer: start and stop
\* are requested only by the Carplay component.
NextTransport ==
  \/ attachRenderer
  \/ RendererMount
  \/ onUsbConnect
  \/ onUsbDisconnect
  \/ RendererStart
  \/ RendererStop
  \/ UsbLastEvent
  \/ StartSteps
  \/ StopSteps
  \/ EnvPlug
  \/ EnvUnplug
  \/ USBService
  \/ OnAttach
  \/ OnDetach

SpecTransport == Init /\ [][NextTransport]_vars

\* The audio path: the writer fills the ring, the worklet renders quanta.
NextAudio ==
  \/ PCMWorklet
  \/ RingWrite
  \/ ProcessBegin
  \/ ProcessReadTo

SpecAudio == Init /\ [][NextAudio]_vars

\* The render worker: capability tests and packets from the video port.
NextDecoder ==
  \/ evaluateRendererCapabilities
  \/ VideoPortMessage

SpecDecoder == Init /\ [][NextDecoder]_vars

\* The touch hook of the renderer under any sequence of pointer events.
NextTouch ==
  \/ onPointerDown
  \/ onPointerMove
  \/ finishPointer

SpecTouch == Init /\ [][NextTouch]_vars

\* The touch channels of the main process, whatever arrives on them.
NextTouchChannel ==
  \/ ChannelTouch
  \/ ChannelMultiTouch
  \/ OnCarplayTouch
  \/ OnCarplayMultiTouch

SpecTouchChannel == Init /\ [][NextTouchChannel]_vars

\* The audio commands reaching the two sessions' handlers.
NextMic ==
  \/ attachRenderer
  \/ LoadConfig
  \/ ServiceAudioCommand
  \/ CarplayAudioCommand
  \/ RecorderExit

SpecMic == Init /\ [][NextMic]_vars

\* The Microphone under any interleaving of its calls and process events.
NextRecorder ==
  \/ MicStart
  \/ MicStop
  \/ ProcClose

SpecRecorder == Init /\ [][NextRecorder]_vars

\* MediaData messages reaching the service, before and after the renderer
\* is attached.
NextMedia ==
  \/ attachRenderer
  \/ \E msg \in MediaDataMessages : MediaDataMessage(msg)

SpecMedia == Init /\ [][NextMedia]_vars

\* The worklet's accounting, one process() call at a time.
NextPreroll ==
  \/ PCMWorkletOptions
  \/ \E avail \in Availabilities : process(avail)

SpecPreroll == Init /\ [][NextPreroll]_vars

\* The worklet's accounting with tuning messages between process() calls.
NextPort ==
  \/ PCMWorkletOptions
  \/ \E avail \in Availabilities : process(avail)
  \/ \E msg \in PortMessages : PortMessage(msg)

SpecPort == Init /\ [][NextPort]_vars

\* The render worker's pacing: frames from the decoder, animation frames
\* from the browser, the clock. The browser runs every callback it was asked
\* for, and time passes.
NextRender ==
  \/ setTargetFps
  \/ renderFrame
  \/ renderAnimationFrame
  \/ ClockTick

SpecRender ==
  /\ Init
  /\ [][NextRender]_vars
  /\ WF_vars(renderAnimationFrame)
  /\ WF_vars(ClockTick)

\* Plugged messages reaching either session class, and the heartbeat timer.
NextHeartbeat ==
  \/ ServicePlugged
  \/ CarplayPlugged
  \/ CarplayStop
  \/ FrameIntervalFire

SpecHeartbeat == Init /\ [][NextHeartbeat]_vars

\* The update handlers, called by the renderer at any time.
NextUpdate ==
  \/ performUpdate
  \/ FetchSettles
  \/ DownloadSettles
  \/ abortUpdate
  \/ beginInstall
  \/ InstallSettles

SpecUpdate == Init /\ [][NextUpdate]_vars

\* =========================================================================
\* Properties
\* =========================================================================

InFlightStarts == {k \in Slots : StartInFlight(k)}
OpenHandles == {k \in Slots : hnd[k] = "open"}

\* A start() call handled in this step while a start was in flight.
StartCallWhileStarting ==
  /\ isStarting
  /\ <<startRet, startHow>>' # <<startRet, startHow>>

\* C1: while a start() is in flight a further start request returns the
\* in-flight promise and begins nothing: it opens no device and runs no
\* initialise/start; at every instant at most one start body is in progress,
\* at most one device handle is open, and no body runs while a session is
\* started.
C1_StartCoalesced ==
  [][ /\ Cardinality(InFlightStarts') <= 1
      /\ Cardinality(OpenHandles') <= 1
      /\ (started' => InFlightStarts' = {})
      /\ (StartCallWhileStarting =>
            /\ startRet' = startPromise
            /\ startHow' = "inflight"
            /\ UNCHANGED <<isStarting, startPromise, startPc, hnd,
                           webUsbDevice, drv, started>>) ]_vars

\* A second request was answered with the promise of the start body that has
\* opened the device and is initialising the driver.
C1_Witness ==
  /\ isStarting
  /\ startHow = "inflight"
  /\ startRet = startPromise
  /\ startPc[startPromise] = "initialise"
  /\ hnd[startPromise] = "open"

\* A stop() call resolves in this step: it returns at a guard, or its body
\* (and with it every call that returned the in-flight promise) finishes.
StopResolves ==
  \/ stopHow' = "noop" /\ stopHow # "noop"
  \/ \E k \in Slots : stopPc[k] = "deviceClose" /\ stopPc'[k] = "idle"

\* C2: whenever a stop() call resolves, in any state, the pair timeout and
\* the frame heartbeat are cancelled, the device handle is released
\* (webUsbDevice is null) and the session is not started.
C2_StopReleases ==
  [][ StopResolves =>
        /\ pairTimeout' = "null"
        /\ ~frameInterval'
        /\ webUsbDevice' = 0
        /\ ~started' ]_vars

\* A stop() call handled in this step that found no session started or a
\* stop in flight.
RepeatedStopCall ==
  /\ ~started \/ isStopping
  /\ <<stopRet, stopHow>>' # <<stopRet, stopHow>>

\* C3: stop() is idempotent: driver.close() is called at most once per
\* started session, only by a stop() that found the session started and no
\* stop in flight; a stop() called when not started or while another is in
\* flight begins no body and leaves the service's state as it was.
C3_StopIdempotent ==
  [][ /\ closeCalls' <= 1
      /\ (closeCalls' > closeCalls => started /\ ~isStopping)
      /\ (RepeatedStopCall =>
            UNCHANGED <<stopPc, closeCalls, started, stopping, isStopping,
                        stopPromise, pairTimeout, frameInterval, webUsbDevice,
                        hnd, drv>>) ]_vars

\* A second stop() was answered with the promise of the stop in flight.
C3_Witness ==
  /\ isStopping
  /\ stopHow = "inflight"
  /\ stopRet = stopPromise
  /\ closeCalls = 1

\* A video, audio or media event is sent upward in this step.
MediaUp ==
  /\ upSeq' # upSeq
  /\ lastUp' \in {"video", "audio", "media"}

Quiescent ==
  /\ usbUp /\ webContents /\ mounted
  /\ usbQueue = <<>> /\ rendQ = <<>> /\ ipcQ = <<>>
  /\ InFlightStarts = {}
  /\ \A k \in Slots : ~StopInFlight(k)

NoStartFailed == \A k \in Slots : startPc[k] # "failed"

\* C5: transport attach/detach wins over stale session state: once
\* everything the last attach or detach event triggered has run, the session
\* agrees with it: started after an attach (if no start failed), not started
\* after a detach, also when the event arrived while a start() or stop() was
\* in flight.
C5_TransportWins ==
  Quiescent =>
    /\ (lastTransport = "attach" /\ NoStartFailed => started)
    /\ (lastTransport = "detach" => ~started)

\* An in-band Plugged / Unplugged message is forwarded upward in this step.
InBand(e) ==
  /\ upSeq' # upSeq
  /\ lastUp' = e

C8_MediaCancelsPair ==
  [][ /\ (MediaUp => pairTimeout' # "armed")
      /\ (wifiPairSent' > wifiPairSent => ~mediaSince) ]_vars

\* C9 (as stated): 'plugged' and 'unplugged' notifications strictly
\* alternate: the last two notifications are never of the same kind.
C9_NotificationsAlternate == notifLast # "none" => notifLast # notifPrev

\* The attach or detach handler runs in this step.
WatcherStep == Len(usbQueue') < Len(usbQueue)

\* C9 (amended): 'plugged' is never notified twice in a row, the attach and
\* detach handlers never emit a notification of the kind of the previous one,
\* and the flag always tells the kind of the last notification; only a force
\* reset can repeat 'unplugged'.
C9_WatcherFilters ==
  [][ /\ (notifLast' = "plugged" => notifPrev' # "plugged")
      /\ (lastDongleState' <=> notifLast' = "plugged")
      /\ (WatcherStep /\ <<notifLast, notifPrev>>' # <<notifLast, notifPrev>>
            => notifLast' # notifPrev') ]_vars

\* The detach that follows a device reset was handled and filtered: one
\* 'unplugged' only.
C9_Witness ==
  /\ reenum = "back"
  /\ usbQueue = <<>>
  /\ lastTransport = "detach"
  /\ ~lastDongleState
  /\ notifLast = "unplugged" /\ notifPrev = "plugged"

\* The device reset is issued in this step.
ResetIssued == rstPc' = "resetting" /\ rstPc # "resetting"

\* The attach handler runs in this step.
AttachHandled == WatcherStep /\ lastTransport' = "attach"

ResetReturns == rstRet' \in {"true", "false"} /\ rstRet' # rstRet

\* C11: resetDongle returns true and reports usb-reset-done ok when
\* device.reset succeeds or fails with one of the three no-device errors,
\* returns false and reports a failure for any other reset error or when the
\* device cannot be opened, and never returns with the device it opened
\* still open.
C11_ResetNoDeviceIsSuccess ==
  [][ /\ (rstOpened' => rstPc' = "resetting")
      /\ (ResetReturns =>
            /\ ~rstOpened'
            /\ (rstErr' \in NoDeviceErrors \cup {"ok"} =>
                  rstRet' = "true" /\ resetDone' = "ok")
            /\ (rstErr' \in {"other", "open"} =>
                  rstRet' = "false" /\ resetDone' = "failed")) ]_vars

\* A reset that ended with LIBUSB_ERROR_NO_DEVICE was reported as done.
C11_Witness ==
  /\ rstPc = "idle"
  /\ rstErr = "LIBUSB_ERROR_NO_DEVICE"
  /\ rstRet = "true"
  /\ resetDone = "ok"
  /\ ~rstOpened

\* process() has just returned from its call of readTo.
ReadToReturns == wlPc = "readTo" /\ wlPc' = "idle"

\* The samples written and not yet read are exactly those between the two
\* indices.
RingConsistent == unread >= 0 /\ unread = getReadInfo

\* C12: readTo copies at most the samples available and at most the target's
\* length, advances the read index modulo the storage length by exactly the
\* number copied, never past the write index (the count of samples read
\* never exceeds the count written), and what it copies are the next
\* samples in the order they were written.
C12_ReadToInOrder ==
  /\ []RingConsistent
  /\ [][ReadToReturns =>
          LET got == Len(readerOutput')
          IN /\ got <= getReadInfo
             /\ got <= aligned
             /\ got = Min(getReadInfo, aligned)
             /\ readPointer' = (readPointer + got) % StorageLen
             /\ unread' = unread - got
             /\ readerOutput' = [i \in 1..got |-> SampleAfter(rseq, i - 1)]
             /\ rseq' = SampleAfter(rseq, got)]_vars

\* A read that wrapped around the end of the storage.
C12_Witness ==
  /\ outKind = "data"
  /\ wlPc = "idle"
  /\ readPointer > 0
  /\ Len(readerOutput) > readPointer
  /\ unread > 0

\* process() has just been entered: it either returns a quantum at once or
\* goes on to readTo.
ProcessEntered ==
  wlPc = "idle" /\ (outSeq' # outSeq \/ wlPc' = "readTo")

\* The worklet is priming: not primed and fewer samples available than the
\* target preroll.
Priming ==
  /\ ~primed
  /\ getReadInfo < targetPrerollQ * RENDER_QUANTUM_FRAMES * channels

\* C13: a process() call made while the worklet is priming outputs only
\* zeros, stays unprimed and leaves the read index where it was.
C13_PrimingIsSilent ==
  [][ProcessEntered /\ Priming =>
        /\ outSeq' # outSeq
        /\ outKind' = "silence"
        /\ ~primed'
        /\ readerOutput' = <<>>
        /\ UNCHANGED <<readPointer, unread>>]_vars

\* Silence while samples are waiting, after an underrun raised the target.
C13_Witness ==
  /\ outKind = "silence"
  /\ portLast = "underrun"
  /\ targetPrerollQ > basePrerollQ
  /\ unread >= RENDER_QUANTUM_FRAMES * channels
  /\ Priming

\* A message has just been posted on the port.
Posts(t) == portLast' = t /\ (portLast # t \/ portPrev' # portPrev)

\* process() returns a full quantum of samples read from the ring.
FullQuantum == ReadToReturns /\ framesGot' = RENDER_QUANTUM_FRAMES

\* process() finds nothing to read once primed.
HardUnderrun == wlPc = "idle" /\ outSeq' # outSeq /\ outKind' = "last"

\* C14: 'underrun' and 'recovered' alternate, starting with 'underrun';
\* 'underrun' is posted by the first hard underrun of an episode only, and
\* 'recovered' by the first full quantum after it and at no other time.
C14_UnderrunRecoveredAlternate ==
  /\ [](/\ (portLast = "underrun" => portPrev \in {"none", "recovered"})
        /\ (portLast = "recovered" => portPrev = "underrun")
        /\ (reportedUnderrun <=> portLast = "underrun"))
  /\ [][/\ (Posts("underrun") <=> HardUnderrun /\ portLast # "underrun")
        /\ (Posts("recovered") <=> FullQuantum /\ portLast = "underrun")
        /\ (portLast' # portLast => Posts("underrun") \/ Posts("recovered"))]_vars

\* A second episode has been reported after the first one recovered.
C14_Witness ==
  /\ portLast = "underrun"
  /\ portPrev = "recovered"
  /\ outKind = "last"

\* processRaw has just handled a packet.
ProcessRawReturns == rawSeq' # rawSeq

\* C15: the decoder accepts no chunk before an SPS has been observed, a
\* keyframe has arrived and the decoder has been configured from the SPS;
\* until the first chunk every delta is dropped, and the first chunk is of
\* type 'key'.
C15_KeyframeGate ==
  /\ [](chunkCount > 0 =>
          /\ seenSps /\ seenKey /\ lastSPS
          /\ isConfigured /\ decoderMode # "none"
          /\ firstChunk = "key")
  /\ [][ProcessRawReturns /\ chunkCount = 0 =>
          /\ (~pkt'.key => chunkCount' = 0)
          /\ (chunkCount' > 0 => lastChunk' = "key" /\ isConfigured')]_vars

\* The first chunk goes to the decoder after a delta was dropped.
C15_Witness ==
  /\ rawLast = "first-key-decoded"
  /\ chunkCount = 1
  /\ firstChunk = "key"
  /\ deltaDropped

\* A packet with an SPS and a keyframe for which getDecoderConfig,
\* configure() and decode() all work.
GoodKeyframe(b) ==
  /\ b.bytes > 0 /\ b.sps /\ b.key
  /\ b.cfg /\ b.hw /\ b.sw /\ b.dec

\* C16: when decoding the first keyframe fails after a successful
\* configure, isConfigured is reset, and a later SPS+IDR packet that the
\* decoder can take is decoded.
C16_RetryAfterFailedKeyframe ==
  [][ProcessRawReturns =>
       /\ (rawLast' = "first-key-failed" => ~isConfigured')
       /\ (hardwareAccelerationTested /\ GoodKeyframe(pkt') =>
             rawLast' \in {"first-key-decoded", "decoded"})]_vars

\* The slot ids in use.
ActiveSlots == DOMAIN active

\* C17: the active slot ids are the slots of the pointers that went Down
\* and not yet Up, no two of them share a slot, a pointer keeps its slot
\* while it is down, and a pointer going down while a released slot is
\* waiting is given a released slot, not a new one.
C17_SlotsTrackPointers ==
  /\ [](/\ DOMAIN slotByPointerId = isDown
        /\ ActiveSlots = {slotByPointerId[p] : p \in isDown}
        /\ \A p \in isDown, q \in isDown :
              slotByPointerId[p] = slotByPointerId[q] => p = q
        /\ \A k \in 1..Len(freeSlots) : freeSlots[k] \notin ActiveSlots)
  /\ [][/\ \A p \in isDown \cap isDown' :
              slotByPointerId'[p] = slotByPointerId[p]
        /\ \A p \in isDown' \ isDown :
              freeSlots # <<>> =>
                /\ \E k \in 1..Len(freeSlots) :
                      slotByPointerId'[p] = freeSlots[k]
                /\ nextSlot' = nextSlot]_vars

\* A pointer went down on a released slot while another pointer is down.
C17_Witness ==
  /\ lastEvent.type = "down"
  /\ lastEvent.alloc = "reuse"
  /\ isDown = Pointers
  /\ slotByPointerId[lastEvent.pid] = 0

\* A touch pointer's event has just been handled.
TouchEvent == evSeq' # evSeq /\ lastEvent'.pid # 0

\* The pointers on the screen when the frame of this event is sent, and the
\* slot and the latest position of each.
OnScreen == isDown \cup isDown'
SlotOf(p) ==
  IF p \in isDown' THEN slotByPointerId'[p] ELSE slotByPointerId[p]
LatestPos(p) == IF p = lastEvent'.pid THEN lastEvent'.pos ELSE lastPos[p]
ActionOf(p) ==
  IF p = lastEvent'.pid /\ lastEvent'.type = "down" THEN "Down"
  ELSE IF p = lastEvent'.pid /\ lastEvent'.type = "finish" THEN "Up"
  ELSE "Move"

\* C18: the frame a touch event sends holds exactly one point for every
\* pointer on the screen, with the pointer's slot and latest position; the
\* pointer of the event carries Down or Up when it went down or up, every
\* other point Move, and the frame of an Up still holds that pointer.
C18_FullFrame ==
  [][TouchEvent =>
       IF lastEvent'.pid \in OnScreen
       THEN /\ touchIpc'.ch = "carplay-multi-touch"
            /\ touchIpc'.points =
                 {[id |-> SlotOf(p), x |-> LatestPos(p).x,
                   y |-> LatestPos(p).y, action |-> ActionOf(p)] :
                    p \in OnScreen}
            /\ Cardinality(touchIpc'.points) = Cardinality(OnScreen)
       ELSE touchIpc' = NoMessage]_vars

\* The frame of an Up, sent while another pointer stays down.
C18_Witness ==
  /\ lastEvent.type = "finish"
  /\ lastEvent.pid # 0
  /\ isDown # {}
  /\ lastEvent.pid \notin isDown
  /\ Cardinality(touchIpc.points) = MaxPointers
  /\ \E q \in touchIpc.points : q.action = "Up"

\* A number in [0,1].
InUnit(v) == v.k = "fin" /\ 0 <= v.v /\ v.v <= One

\* C19: every x and y handed to the driver in a SendTouch or a
\* SendMultiTouch lies in [0,1].
C19_CoordinatesInUnit ==
  /\ (driverSent.ch = "carplay-touch" =>
        InUnit(driverSent.x) /\ InUnit(driverSent.y))
  /\ \A q \in driverSent.points : InUnit(q.x) /\ InUnit(q.y)

\* An audio command has just been handled; the microphone of the session
\* that handled it.
AudioCommandHandled == micSeq' # micSeq
HandlersMic == IF micCmd'.to = "CarplayService" THEN svcMic' ELSE nodeMic'

\* C20: with audioTransferMode off, AudioSiriStart and AudioPhonecallStart
\* leave the microphone Running (on a platform with a recorder, the
\* renderer attached) and AudioSiriStop and AudioPhonecallStop leave it
\* Stopped; with audioTransferMode on, the microphone is Stopped whatever
\* commands arrive.
C20_MicFollowsCommands ==
  /\ [](audioTransferMode => svcMic # "Running" /\ nodeMic # "Running")
  /\ [][AudioCommandHandled /\ webContents =>
          /\ (~audioTransferMode /\ recorder
                /\ micCmd'.command \in StartCommands =>
                  HandlersMic = "Running")
          /\ (micCmd'.command \in StopCommands =>
                  HandlersMic # "Running")]_vars

\* C21: the only recorder process that is running and has not been killed
\* is the one the Microphone references.
C21_OnlyReferencedRuns ==
  \A k \in 1..MaxProcs : recProc[k] = "running" => micProcess = k

\* A MediaData message was handled.
MediaHandled == mediaSeq' # mediaSeq

\* The fields a message carries, as the handler tests them.
CarriesBag == mediaMsg'.type = "Data" /\ mediaMsg'.hasMedia
CarriesImage ==
  mediaMsg'.type = "AlbumCover" /\ mediaMsg'.base64Image \notin {Undefined, ""}

\* The persisted payload as the renderer's merge would update it.
Merged ==
  mergePayload([media |-> persistedMedia, base64Image |-> persistedImage],
               mediaMsg')

\* C22 as stated: every Data update merges its keys over the persisted bag
\* and leaves the image, every AlbumCover update replaces the image and
\* leaves the bag.
C22_EveryUpdateMerged ==
  [][MediaHandled /\ mediaMsg'.type # "none" =>
       IF mediaMsg'.type = "Data"
       THEN /\ persistedImage' = persistedImage
            /\ mediaMsg'.hasMedia =>
                 persistedMedia' = Spread(persistedMedia, mediaMsg'.media)
       ELSE /\ persistedMedia' = persistedMedia
            /\ mediaMsg'.base64Image # Undefined =>
                 persistedImage' = mediaMsg'.base64Image]_vars

\* C22: with a renderer attached, a Data update carrying a bag merges its
\* keys over the persisted bag and leaves the image, and an AlbumCover
\* update carrying a non-empty image replaces the image and leaves the bag,
\* both as the renderer's mergePayload does; any other update, and any
\* update with no renderer attached, leaves the persisted payload as it was.
C22_PartialUpdatesMerge ==
  [][MediaHandled =>
       IF webContents /\ CarriesBag
       THEN /\ persistedMedia' = Spread(persistedMedia, mediaMsg'.media)
            /\ persistedImage' = persistedImage
            /\ mediaMsg'.base64Image = Undefined =>
                 /\ persistedMedia' = Merged.media
                 /\ persistedImage' = Merged.base64Image
       ELSE IF webContents /\ CarriesImage
       THEN /\ persistedImage' = mediaMsg'.base64Image
            /\ persistedMedia' = persistedMedia
            /\ ~mediaMsg'.hasMedia =>
                 /\ persistedMedia' = Merged.media
                 /\ persistedImage' = Merged.base64Image
       ELSE UNCHANGED <<persistedMedia, persistedImage>>]_vars

\* An album cover has replaced the image of a payload holding a bag of two
\* keys, with the bag kept.
C22_Witness ==
  /\ mediaMsg.type = "AlbumCover"
  /\ webContents
  /\ persistedImage = "imgB"
  /\ DOMAIN persistedMedia = MediaKeys

\* A start body has ended in its catch block.
StartFailedNow(k) == startPc[k] # "failed" /\ startPc'[k] = "failed"

\* C23: when a start body fails, a failure event goes up to the host, and
\* the session is left not started, with no device handle held and no pair
\* timeout pending.
C23_FailureReported ==
  [][\A k \in Slots :
       StartFailedNow(k) =>
         /\ upSeq' # upSeq /\ lastUp' = "failure"
         /\ ~started'
         /\ webUsbDevice' = 0
         /\ hnd'[k] # "open"
         /\ pairTimeout' # "armed"]_vars

\* Once primed, process() finds no channel-aligned sample in the ring.
NothingAligned ==
  LET want == Min(RENDER_QUANTUM_FRAMES * channels, getReadInfo)
  IN primed /\ want - (want % channels) = 0

\* C24: a hard underrun fills the quantum with the last sample, raises
\* targetPrerollQ by one when it is below maxPrerollQ and leaves it
\* otherwise, and unprimes the worklet; until the ring holds
\* targetPrerollQ quanta again, no step moves the read index.
C24_HardUnderrunReprimes ==
  /\ [][ProcessEntered /\ NothingAligned =>
          /\ HardUnderrun
          /\ readerOutput' = <<>>
          /\ targetPrerollQ' = IF targetPrerollQ < maxPrerollQ
                               THEN targetPrerollQ + 1 ELSE targetPrerollQ
          /\ ~primed'
          /\ UNCHANGED <<readPointer, rseq>>]_vars
  /\ [][HardUnderrun => ProcessEntered /\ NothingAligned]_vars
  /\ [][Priming => UNCHANGED <<readPointer, rseq>> /\ wlPc' # "readTo"]_vars

\* After a hard underrun that raised the target, the worklet is priming
\* with samples in the ring, fewer than the raised target asks for.
C24_Witness ==
  /\ outKind = "last"
  /\ targetPrerollQ = basePrerollQ + 1
  /\ Priming
  /\ getReadInfo >= RENDER_QUANTUM_FRAMES * channels

\* One whole process() call, and one that delivers a full quantum.
ProcessCalled == wlPc = "idle" /\ wlPc' = "idle" /\ outSeq' # outSeq
FullDelivered ==
  ProcessCalled /\ outKind' = "data" /\ framesGot' = RENDER_QUANTUM_FRAMES

\* C25: with basePrerollQ = 3 a hard underrun takes targetPrerollQ from 3 to
\* 4; the target goes down only by one, and exactly at the 128th full quantum
\* delivered in a row since it last moved, while it is above the base; a
\* partial quantum or an underrun restarts the count.
C25_ShrinkAfterStableStreak ==
  /\ [][ProcessCalled /\ outKind' = "last" /\ basePrerollQ = 3
          /\ targetPrerollQ = 3 /\ maxPrerollQ > 3 =>
            targetPrerollQ' = 4]_vars
  /\ [][ProcessCalled =>
          /\ targetPrerollQ' < targetPrerollQ <=>
               /\ FullDelivered
               /\ fullRun = StableBlocksToShrink - 1
               /\ targetPrerollQ > basePrerollQ
          /\ targetPrerollQ' < targetPrerollQ =>
               targetPrerollQ' = targetPrerollQ - 1
          /\ ~FullDelivered /\ outKind' # "silence" =>
               stableBlocks' = 0 /\ fullRun' = 0]_vars
  /\ [](targetPrerollQ > basePrerollQ /\ primed => stableBlocks = fullRun)

\* From a base of 3 the target was raised by an underrun and a streak of
\* 128 full quanta has just brought it back to 3.
C25_Witness ==
  /\ basePrerollQ = 3
  /\ targetPrerollQ = 3
  /\ outKind = "data"
  /\ framesGot = RENDER_QUANTUM_FRAMES
  /\ stableBlocks = 0
  /\ portPrev = "underrun"

\* C26: once the worklet is built, basePrerollQ <= targetPrerollQ <=
\* maxPrerollQ.
C26_TargetBetweenBaseAndMax ==
  wlPc # "new" =>
    basePrerollQ <= targetPrerollQ /\ targetPrerollQ <= maxPrerollQ

\* renderer.draw was called.
Drawn == drawSeq' # drawSeq

\* C27: a frame is drawn only when 1000 / fps ms have passed since the last
\* draw, it is the pending frame, and the pending cell is cleared; a pending
\* frame always has a callback waiting for it, and it leaves the cell, drawn
\* or replaced by a newer frame.
C27_PacedDraw ==
  /\ [][Drawn => /\ sinceRender * targetFps >= 1000
                 /\ pendingFrame # 0
                 /\ lastDrawn' = pendingFrame
                 /\ pendingFrame' = 0]_vars
  /\ [][pendingFrame # 0 /\ pendingFrame' # pendingFrame =>
          Drawn \/ pendingFrame' # 0]_vars
  /\ [](pendingFrame # 0 => rafCallbacks > 0)
  /\ \A f \in Frames : (pendingFrame = f) ~> (pendingFrame # f)

\* After an earlier draw a newer frame is pending, and its callback has run
\* before the interval elapsed and asked for another animation frame.
C27_Witness ==
  /\ lastDrawn # 0
  /\ pendingFrame # 0
  /\ TooEarly
  /\ ~renderScheduled
  /\ rafCallbacks = 1

\* C28: after a Plugged message for a phone type with a frameInterval the
\* heartbeat timer runs, after one without it none does; 'frame' is sent by
\* a timer only; and at most one timer runs at any time.
C28_HeartbeatFollowsConfig ==
  /\ [][hbSeq' # hbSeq =>
          (hbConfigured' <=> Cardinality(hbTimers') = 1)]_vars
  /\ [][frameSeq' # frameSeq => hbTimers # {}]_vars
  /\ [](Cardinality(hbTimers) <= 1)

\* C29: a start body and a stop body are never in progress together,
\* isStarting holds exactly while startPromise is set, and isStopping exactly
\* while stopPromise is set.
C29_StartStopExclusive ==
  /\ ~(isStarting /\ isStopping)
  /\ isStarting <=> startPromise # 0
  /\ isStopping <=> stopPromise # 0

\* C30: a performUpdate request rejected because an update is in progress
\* leaves the session's state, temp file and cancel handle as they were.
C30_RejectedLeavesSession ==
  [][updSeq' # updSeq /\ updOp' = "rejected" =>
       UNCHANGED <<updState, updTmpFile, updCancel>>]_vars

====
